---- MODULE Spec2Model ----
(***************************************************************************)
(* A model of the merge engine of openapi-merge (src/src/merge).           *)
(*                                                                         *)
(* Strings are TLA+ strings; \o, Len and SubSeq act on them as the Rust    *)
(* String operations do.  Option<T> is a sequence of length 0 (None) or 1  *)
(* (Some).  An IndexMap is a record [keys, vals]: the keys in insertion    *)
(* order and the key -> value function.  A HashMap is a function, a        *)
(* HashSet a set.                                                          *)
(*                                                                         *)
(* A component value (ReferenceOr<Schema>, ReferenceOr<Response>, ...) is  *)
(* [body, refs]: body stands for everything in it that is not a reference  *)
(* string, the member names of its object in their IndexMap order; refs    *)
(* holds its reference strings in the order in which                       *)
(* reference_walker.rs visits them.  An Operation is                       *)
(* [operation_id, tags, refs], with refs again in walk order.              *)
(***************************************************************************)
EXTENDS Integers, Sequences, FiniteSets, TLC

VARIABLES
    pc,                     \* position inside merge / merge_paths_and_components
    inputs,                 \* the MergeInput the caller passed (Vec<SingleMergeInput>)
    input_index,            \* the for loop's index over inputs (1-based)
    dispute,                \* get_dispute(input) of the current input
    oas,                    \* the scratch copy of the current input's document
    reference_modification, \* the current input's rewrite table (HashMap)
    kind_index,             \* component kind being processed (index into Kinds)
    entry_index,            \* entry being processed inside the current map / paths
    seen_operation_ids,     \* HashSet<String>
    result_paths,           \* IndexMap path -> path item
    result_components,      \* Components under construction
    result,                 \* what merge returned: Option of Ok / Err / panic
    call,                   \* the last call of a helper function made on its own
    preserve_order          \* whether serde_json is built with its preserve_order feature

vars == <<pc, inputs, input_index, dispute, oas, reference_modification,
          kind_index, entry_index, seen_operation_ids, result_paths,
          result_components, result, call, preserve_order>>

----------------------------------------------------------------------------
(* Option *)

None == <<>>
Some(v) == <<v>>
IsSome(o) == Len(o) = 1
IsNone(o) == Len(o) = 0

(* str::starts_with and the slice s[n..] *)
StartsWith(s, p) == Len(p) <= Len(s) /\ SubSeq(s, 1, Len(p)) = p
SliceFrom(s, n) == SubSeq(s, n + 1, Len(s))

(* The order of str (bytewise), over the characters that occur *)
Alphabet == "#/0123456789ABCDEFGHIJKLMNOPQRSTUVWXYZ_abcdefghijklmnopqrstuvwxyz{}"
CharRank ==
    [c \in {SubSeq(Alphabet, i, i) : i \in 1..Len(Alphabet)} |->
        CHOOSE i \in 1..Len(Alphabet) : SubSeq(Alphabet, i, i) = c]
RECURSIVE StrLess(_, _)
StrLess(a, b) ==
    IF Len(b) = 0 THEN FALSE
    ELSE IF Len(a) = 0 THEN TRUE
    ELSE LET ca == CharRank[SubSeq(a, 1, 1)]
             cb == CharRank[SubSeq(b, 1, 1)]
         IN IF ca # cb THEN ca < cb
            ELSE StrLess(SubSeq(a, 2, Len(a)), SubSeq(b, 2, Len(b)))

(* IndexMap *)
EmptyMap == [keys |-> <<>>, vals |-> <<>>]
MapHas(m, k) == k \in DOMAIN m.vals
MapGet(m, k) == m.vals[k]
MapLen(m) == Len(m.keys)
MapIsEmpty(m) == Len(m.keys) = 0
MapKeySet(m) == {m.keys[i] : i \in 1..Len(m.keys)}
(* IndexMap::insert: an existing key keeps its position and gets the new value *)
MapInsert(m, k, v) ==
    IF MapHas(m, k)
    THEN [keys |-> m.keys, vals |-> [x \in DOMAIN m.vals |-> IF x = k THEN v ELSE m.vals[x]]]
    ELSE [keys |-> Append(m.keys, k), vals |-> m.vals @@ (k :> v)]
(* HashMap::insert *)
(* HashMap::insert with the bug of keeping the value already recorded for a key *)
HashInsertKeepFirst(h, k, v) ==
    [x \in (DOMAIN h) \cup {k} |-> IF x \in DOMAIN h THEN h[x] ELSE v]
HashInsert(h, k, v) == [x \in (DOMAIN h) \cup {k} |-> IF x = k THEN v ELSE h[x]]

----------------------------------------------------------------------------
(* The shape of a document *)

Kinds == <<"schemas", "responses", "parameters", "examples",
           "requestBodies", "headers", "links", "callbacks">>

EmptyComponents ==
    [schemas |-> EmptyMap, responses |-> EmptyMap, parameters |-> EmptyMap,
     examples |-> EmptyMap, requestBodies |-> EmptyMap, headers |-> EmptyMap,
     links |-> EmptyMap, callbacks |-> EmptyMap, securitySchemes |-> EmptyMap]

Methods == {"get", "put", "post", "delete", "options", "head", "patch", "trace"}

ComponentRef(prefix, key) == "#/components/" \o prefix \o "/" \o key
PathRef(path) == "#/paths/" \o path

----------------------------------------------------------------------------
(* dispute.rs *)

(* get_dispute with the bug of preferring the dispute field to the legacy prefix *)
GetDisputeNewFirst(input) ==
    IF IsSome(input.dispute) THEN input.dispute
    ELSE IF IsSome(input.dispute_prefix)
    THEN Some([variant |-> "Prefix", prefix |-> input.dispute_prefix[1],
               always_apply |-> None])
    ELSE None

GetDispute(input) ==
    IF IsSome(input.dispute_prefix)
    THEN Some([variant |-> "Prefix", prefix |-> input.dispute_prefix[1],
               always_apply |-> None])
    ELSE input.dispute

(* apply_dispute with the bug of ignoring the status: only always_apply counts *)
ApplyDisputeOnlyAlways(d, input, status) ==
    IF IsNone(d) THEN input
    ELSE LET should_apply ==
                 IF IsSome(d[1].always_apply) THEN d[1].always_apply[1] ELSE FALSE
         IN IF ~should_apply THEN input
            ELSE IF d[1].variant = "Prefix" THEN d[1].prefix \o input
            ELSE input \o d[1].suffix

ApplyDispute(d, input, status) ==
    IF IsNone(d) THEN input
    ELSE LET should_apply ==
                 IF status = "Disputed" THEN TRUE
                 ELSE IF IsSome(d[1].always_apply) THEN d[1].always_apply[1] ELSE FALSE
         IN IF ~should_apply THEN input
            ELSE IF d[1].variant = "Prefix" THEN d[1].prefix \o input
            ELSE input \o d[1].suffix

----------------------------------------------------------------------------
(* operation_selection.rs *)

OperationContainsAnyTag(operation, tags) ==
    \E i \in 1..Len(operation.tags) :
        \E j \in 1..Len(tags) : operation.tags[i] = tags[j]

(* One path item after drop_operations_that_have_tags *)
DropInPathItem(path_item, excluded_tags) ==
    IF path_item.is_ref THEN path_item
    ELSE [path_item EXCEPT !.ops =
            [m \in Methods |->
                IF IsSome(path_item.ops[m])
                   /\ OperationContainsAnyTag(path_item.ops[m][1], excluded_tags)
                THEN None ELSE path_item.ops[m]]]

DropOperationsThatHaveTags(doc, excluded_tags) ==
    IF Len(excluded_tags) = 0 THEN doc
    ELSE [doc EXCEPT !.paths =
            [keys |-> doc.paths.keys,
             vals |-> [p \in DOMAIN doc.paths.vals |->
                         DropInPathItem(doc.paths.vals[p], excluded_tags)]]]

(* include_operations_that_have_tags with the bug of keeping the untagged operations *)
IncludeInPathItemKeepUntagged(path_item, include_tags) ==
    IF path_item.is_ref THEN path_item
    ELSE [path_item EXCEPT !.ops =
            [m \in Methods |->
                IF IsSome(path_item.ops[m])
                   /\ Len(path_item.ops[m][1].tags) # 0
                   /\ ~OperationContainsAnyTag(path_item.ops[m][1], include_tags)
                THEN None ELSE path_item.ops[m]]]

(* One path item after include_operations_that_have_tags *)
IncludeInPathItem(path_item, include_tags) ==
    IF path_item.is_ref THEN path_item
    ELSE [path_item EXCEPT !.ops =
            [m \in Methods |->
                IF IsSome(path_item.ops[m])
                   /\ ~OperationContainsAnyTag(path_item.ops[m][1], include_tags)
                THEN None ELSE path_item.ops[m]]]

IncludeOperationsThatHaveTags(doc, include_tags) ==
    IF Len(include_tags) = 0 THEN doc
    ELSE [doc EXCEPT !.paths =
            [keys |-> doc.paths.keys,
             vals |-> [p \in DOMAIN doc.paths.vals |->
                         IncludeInPathItem(doc.paths.vals[p], include_tags)]]]

RunOperationSelection(doc, operation_selection) ==
    IF IsNone(operation_selection) THEN doc
    ELSE LET selection == operation_selection[1]
             include_tags == IF IsSome(selection.include_tags)
                             THEN selection.include_tags[1] ELSE <<>>
             exclude_tags == IF IsSome(selection.exclude_tags)
                             THEN selection.exclude_tags[1] ELSE <<>>
             included == IF Len(include_tags) # 0
                         THEN IncludeOperationsThatHaveTags(doc, include_tags)
                         ELSE doc
         IN IF Len(exclude_tags) # 0
            THEN DropOperationsThatHaveTags(included, exclude_tags)
            ELSE included

----------------------------------------------------------------------------
(* paths_components.rs: the helpers *)

(* apply_path_modification with the bug of prepending before it strips *)
ApplyPathModificationPrependFirst(path, path_modification) ==
    IF IsNone(path_modification) THEN path
    ELSE LET pm == path_modification[1]
             prepended == IF IsSome(pm.prepend) THEN pm.prepend[1] \o path ELSE path
         IN IF IsSome(pm.strip_start) /\ StartsWith(prepended, pm.strip_start[1])
            THEN SliceFrom(prepended, Len(pm.strip_start[1]))
            ELSE prepended

ApplyPathModification(path, path_modification) ==
    IF IsNone(path_modification) THEN path
    ELSE LET pm == path_modification[1]
             stripped == IF IsSome(pm.strip_start) /\ StartsWith(path, pm.strip_start[1])
                         THEN SliceFrom(path, Len(pm.strip_start[1]))
                         ELSE path
         IN IF IsSome(pm.prepend) THEN pm.prepend[1] \o stripped ELSE stripped

(* result_paths.paths.contains_key(&new_path), with the bug of never finding it *)
IsDuplicatePathNever(paths, new_path) == FALSE
IsDuplicatePath(paths, new_path) == MapHas(paths, new_path)

(* The test of drop_path_items_with_no_operations with the bug of dropping references *)
PathItemHasOperationAlways(path_item) == TRUE
PathItemHasOperationNoRef(path_item) ==
    ~path_item.is_ref /\ \E m \in Methods : IsSome(path_item.ops[m])
PathItemHasOperation(path_item) ==
    path_item.is_ref \/ \E m \in Methods : IsSome(path_item.ops[m])

DropPathItemsWithNoOperations(doc) ==
    LET kept == SelectSeq(doc.paths.keys,
                          LAMBDA p : PathItemHasOperation(doc.paths.vals[p]))
    IN [doc EXCEPT !.paths =
            [keys |-> kept,
             vals |-> [p \in {kept[i] : i \in 1..Len(kept)} |-> doc.paths.vals[p]]]]

(* The ceilings of the two numeric-suffix loops: for k in 1..1000 *)
OperationIdAntiConflictEnd == 1000
ComponentAntiConflictEnd == 1000

(* The first k of lo..hi, in ascending order, with operationId + k not yet seen: *)
(* Some(operationId + k), or None when there is none.  The range is halved so   *)
(* that the evaluation stays shallow; the order of the search is the loop's.    *)
RECURSIVE FirstUnseen(_, _, _, _)
FirstUnseen(operation_id, seen, lo, hi) ==
    IF lo > hi THEN None
    ELSE IF lo = hi
    THEN (IF (operation_id \o ToString(lo)) \notin seen
          THEN Some(operation_id \o ToString(lo)) ELSE None)
    ELSE LET mid == (lo + hi) \div 2
             low == FirstUnseen(operation_id, seen, lo, mid)
         IN IF IsSome(low) THEN low ELSE FirstUnseen(operation_id, seen, mid + 1, hi)

(* The numbering loop with the bug of an inclusive range, 1..=1000 *)
TryOperationIdsInclusive(operation_id, seen) ==
    FirstUnseen(operation_id, seen, 1, OperationIdAntiConflictEnd)
(* for anti_conflict in 1..1000 *)
TryOperationIds(operation_id, seen) ==
    FirstUnseen(operation_id, seen, 1, OperationIdAntiConflictEnd - 1)

(* find_unique_operation_id with the bug of taking the dispute name unchecked *)
FindUniqueOperationIdUnchecked(operation_id, seen, d) ==
    IF operation_id \notin seen THEN Some(operation_id)
    ELSE IF IsSome(d) THEN Some(ApplyDispute(d, operation_id, "Disputed"))
    ELSE TryOperationIds(operation_id, seen)

(* find_unique_operation_id with the bug of numbering an id that is not yet seen *)
FindUniqueOperationIdAlwaysNumbered(operation_id, seen, d) ==
    TryOperationIds(operation_id, seen)

(* Some(id) for Ok(id), None for Err(OperationIdConflict) *)
FindUniqueOperationId(operation_id, seen, d) ==
    IF operation_id \notin seen THEN Some(operation_id)
    ELSE IF IsSome(d) /\ ApplyDispute(d, operation_id, "Disputed") \notin seen
         THEN Some(ApplyDispute(d, operation_id, "Disputed"))
         ELSE TryOperationIds(operation_id, seen)

(* The order in which ensure_unique_operation_ids handles the slots *)
(* The slots with the bug of being handled from options back to get *)
SlotOrderReversed == <<"options", "trace", "head", "patch", "delete", "post", "put", "get">>
SlotOrder == <<"get", "put", "post", "delete", "patch", "head", "trace", "options">>

(* [path_item, seen, err]: err is Some(operationId) when find_unique_operation_id failed *)
RECURSIVE EnsureSlots(_, _, _, _)
EnsureSlots(path_item, seen, d, i) ==
    IF i > Len(SlotOrder) THEN [path_item |-> path_item, seen |-> seen, err |-> None]
    ELSE LET slot == path_item.ops[SlotOrder[i]]
         IN IF IsNone(slot) \/ IsNone(slot[1].operation_id)
            THEN EnsureSlots(path_item, seen, d, i + 1)
            ELSE LET unique_id == FindUniqueOperationId(slot[1].operation_id[1], seen, d)
                 IN IF IsNone(unique_id)
                    THEN [path_item |-> path_item, seen |-> seen,
                          err |-> Some(slot[1].operation_id[1])]
                    ELSE EnsureSlots(
                           [path_item EXCEPT !.ops[SlotOrder[i]] =
                               Some([slot[1] EXCEPT !.operation_id = unique_id])],
                           seen \cup {unique_id[1]}, d, i + 1)

EnsureUniqueOperationIds(path_item, seen, d) ==
    IF path_item.is_ref
    THEN [path_item |-> path_item, seen |-> seen, err |-> None]
    ELSE EnsureSlots(path_item, seen, d, 1)

(* serde_json::to_value: the members of an object become a serde_json Map, *)
(* whose equality does not depend on their order; an array keeps its order *)
ToValue(x) == [body |-> {x.body[i] : i \in 1..Len(x.body)}, refs |-> x.refs]

(* The keys of a map after serde_json::to_value and from_value: a serde_json Map *)
(* keeps the insertion order with the preserve_order feature and is a BTreeMap,  *)
(* sorted by key, without it                                                     *)
RoundTripKeys(keys, preserve) == IF preserve THEN keys ELSE SortSeq(keys, StrLess)
RoundTripComponent(x, preserve) == [x EXCEPT !.body = RoundTripKeys(x.body, preserve)]
RoundTripComponentMap(m, preserve) ==
    [keys |-> RoundTripKeys(m.keys, preserve),
     vals |-> [k \in DOMAIN m.vals |-> RoundTripComponent(m.vals[k], preserve)]]
(* The scratch copy: serde_json::from_value(serde_json::to_value(&input.oas)) *)
RoundTripOas(doc, preserve) ==
    [paths |-> [keys |-> RoundTripKeys(doc.paths.keys, preserve), vals |-> doc.paths.vals],
     components |->
        IF IsNone(doc.components) THEN None
        ELSE LET c == doc.components[1]
             IN Some([schemas |-> RoundTripComponentMap(c.schemas, preserve),
                      responses |-> RoundTripComponentMap(c.responses, preserve),
                      parameters |-> RoundTripComponentMap(c.parameters, preserve),
                      examples |-> RoundTripComponentMap(c.examples, preserve),
                      requestBodies |-> RoundTripComponentMap(c.requestBodies, preserve),
                      headers |-> RoundTripComponentMap(c.headers, preserve),
                      links |-> RoundTripComponentMap(c.links, preserve),
                      callbacks |-> RoundTripComponentMap(c.callbacks, preserve),
                      securitySchemes |->
                          RoundTripComponentMap(c.securitySchemes, preserve)])]
(* components_equal with the bug of comparing the typed values, order included *)
ComponentsEqualAlways(x, y) == TRUE
ComponentsEqualTyped(x, y) == x = y
(* components_equal: equality of the two serde_json values *)
ComponentsEqual(x, y) == ToValue(x) = ToValue(y)

(* The first k of lo..hi, in ascending order, with key + k absent from results: *)
(* Some(key + k), or None when there is none                                   *)
RECURSIVE FirstAbsent(_, _, _, _)
FirstAbsent(results, key, lo, hi) ==
    IF lo > hi THEN None
    ELSE IF lo = hi
    THEN (IF ~MapHas(results, key \o ToString(lo))
          THEN Some(key \o ToString(lo)) ELSE None)
    ELSE LET mid == (lo + hi) \div 2
             low == FirstAbsent(results, key, lo, mid)
         IN IF IsSome(low) THEN low ELSE FirstAbsent(results, key, mid + 1, hi)

(* The numbering loop with the bug of starting one too far *)
TryKeysSkipFirst(results, key) == FirstAbsent(results, key, 2, ComponentAntiConflictEnd - 1)
(* The numbering loop with the bug of an inclusive range, 1..=1000 *)
TryKeysInclusive(results, key) == FirstAbsent(results, key, 1, ComponentAntiConflictEnd)
(* The numbering loop with the bug of a range that is empty, so no candidate is tried *)
TryKeysEmptyRange(results, key) == FirstAbsent(results, key, 1, 0)
(* for anti_conflict in 1..1000 *)
TryKeys(results, key) == FirstAbsent(results, key, 1, ComponentAntiConflictEnd - 1)

(* The body of the loop of process_components_with_prefix for one (key, component): *)
(* [results, reference_modification, err]                                          *)
ProcessOneComponent(results, key, component, d, refmod, prefix) ==
    LET modified_key == ApplyDispute(d, key, "Undisputed")
        refmod1 == IF modified_key # key
                   THEN HashInsert(refmod, ComponentRef(prefix, key),
                                   ComponentRef(prefix, modified_key))
                   ELSE refmod
    IN IF ~MapHas(results, modified_key)
          \/ ComponentsEqual(MapGet(results, modified_key), component)
       THEN [results |-> MapInsert(results, modified_key, component),
             reference_modification |-> refmod1, err |-> FALSE]
       ELSE LET preferred_key == ApplyDispute(d, key, "Disputed")
                try_key == TryKeys(results, key)
            IN IF IsSome(d)
                  /\ (~MapHas(results, preferred_key)
                      \/ ComponentsEqual(MapGet(results, preferred_key), component))
               THEN [results |-> MapInsert(results, preferred_key, component),
                     reference_modification |->
                         HashInsert(refmod1, ComponentRef(prefix, key),
                                    ComponentRef(prefix, preferred_key)),
                     err |-> FALSE]
               ELSE IF IsSome(try_key)
               THEN [results |-> MapInsert(results, try_key[1], component),
                     reference_modification |->
                         HashInsert(refmod1, ComponentRef(prefix, key),
                                    ComponentRef(prefix, try_key[1])),
                     err |-> FALSE]
               ELSE [results |-> results, reference_modification |-> refmod1,
                     err |-> TRUE]

----------------------------------------------------------------------------
(* The closure passed to walk_all_references, and reference_walker.rs *)

(* The prefix filter with the bug of leaving out the "/" after the reference *)
MatchingKeysNoSlash(refmod, ref_path) ==
    {k \in DOMAIN refmod : StartsWith(k, ref_path)}

MatchingKeys(refmod, ref_path) ==
    {k \in DOMAIN refmod : StartsWith(k, ref_path \o "/")}

ModifyPanics(refmod, ref_path) ==
    ref_path \notin DOMAIN refmod /\ Cardinality(MatchingKeys(refmod, ref_path)) > 1

Modify(refmod, ref_path) ==
    IF ref_path \in DOMAIN refmod THEN refmod[ref_path]
    ELSE IF Cardinality(MatchingKeys(refmod, ref_path)) = 1
         THEN refmod[CHOOSE k \in MatchingKeys(refmod, ref_path) : TRUE]
         ELSE ref_path

WalkRefs(refs, refmod) == [i \in 1..Len(refs) |-> Modify(refmod, refs[i])]

WalkOperation(slot, refmod) ==
    IF IsNone(slot) THEN slot
    ELSE Some([slot[1] EXCEPT !.refs = WalkRefs(slot[1].refs, refmod)])

WalkPathItem(path_item, refmod) ==
    IF path_item.is_ref
    THEN [path_item EXCEPT !.reference = Modify(refmod, path_item.reference)]
    ELSE [path_item EXCEPT
            !.ops = [m \in Methods |-> WalkOperation(path_item.ops[m], refmod)],
            !.parameters = WalkRefs(path_item.parameters, refmod)]

WalkComponent(component, refmod) ==
    [component EXCEPT !.refs = WalkRefs(component.refs, refmod)]

(* walk_component_references visits the eight kinds of Kinds, not securitySchemes *)
WalkComponents(components, refmod) ==
    [k \in DOMAIN components |->
        IF \E i \in 1..Len(Kinds) : Kinds[i] = k
        THEN [keys |-> components[k].keys,
              vals |-> [n \in DOMAIN components[k].vals |->
                          WalkComponent(components[k].vals[n], refmod)]]
        ELSE components[k]]

WalkAllReferences(doc, refmod) ==
    [doc EXCEPT
        !.paths = [keys |-> doc.paths.keys,
                   vals |-> [p \in DOMAIN doc.paths.vals |->
                               WalkPathItem(doc.paths.vals[p], refmod)]],
        !.components = IF IsSome(doc.components)
                       THEN Some(WalkComponents(doc.components[1], refmod))
                       ELSE None]

(* Every reference string the walker visits in a path item / a document *)
PathItemRefs(path_item) ==
    IF path_item.is_ref THEN {path_item.reference}
    ELSE UNION {IF IsSome(path_item.ops[m])
                THEN {path_item.ops[m][1].refs[i] : i \in 1..Len(path_item.ops[m][1].refs)}
                ELSE {} : m \in Methods}
         \cup {path_item.parameters[i] : i \in 1..Len(path_item.parameters)}

ComponentsRefs(components) ==
    UNION {UNION {{components[Kinds[k]].vals[n].refs[i] :
                      i \in 1..Len(components[Kinds[k]].vals[n].refs)} :
                  n \in DOMAIN components[Kinds[k]].vals} : k \in 1..Len(Kinds)}

WalkedRefs(doc) ==
    UNION {PathItemRefs(doc.paths.vals[p]) : p \in DOMAIN doc.paths.vals}
    \cup (IF IsSome(doc.components) THEN ComponentsRefs(doc.components[1]) ELSE {})

(* The closure panics on some reference of the document *)
WalkPanics(doc, refmod) == \E r \in WalkedRefs(doc) : ModifyPanics(refmod, r)

----------------------------------------------------------------------------
(* The inputs the model draws from *)

Op(operation_id, tags, refs) == [operation_id |-> operation_id, tags |-> tags, refs |-> refs]
NoOps == [m \in Methods |-> None]
Item(ops) == [is_ref |-> FALSE, reference |-> "", ops |-> ops @@ NoOps, parameters |-> <<>>]
RefItem(reference) ==
    [is_ref |-> TRUE, reference |-> reference, ops |-> NoOps, parameters |-> <<>>]
(* The IndexMap holding the pairs <<key, value>> of a sequence, keys distinct *)
MapOf(pairs) ==
    [keys |-> [i \in 1..Len(pairs) |-> pairs[i][1]],
     vals |-> [k \in {pairs[i][1] : i \in 1..Len(pairs)} |->
                 pairs[CHOOSE i \in 1..Len(pairs) : pairs[i][1] = k][2]]]
Doc(paths, components) == [paths |-> paths, components |-> components]
Schemas(pairs) == Some([EmptyComponents EXCEPT !.schemas = MapOf(pairs)])
MergeInputOf(doc, path_modification, operation_selection, d, dispute_prefix) ==
    [oas |-> doc, path_modification |-> path_modification,
     operation_selection |-> operation_selection, dispute |-> d,
     dispute_prefix |-> dispute_prefix]

PrefixDispute(prefix, always_apply) ==
    Some([variant |-> "Prefix", prefix |-> prefix, always_apply |-> always_apply])
SuffixDispute(suffix, always_apply) ==
    Some([variant |-> "Suffix", suffix |-> suffix, always_apply |-> always_apply])
Disputes ==
    {None, PrefixDispute("svc", Some(FALSE)), PrefixDispute("svc", Some(TRUE)),
     SuffixDispute("1", None), SuffixDispute("X", Some(TRUE))}

PetRef == ComponentRef("schemas", "Pet")
SchemaA == [body |-> <<"name">>, refs |-> <<>>]
SchemaB == [body |-> <<"breed">>, refs |-> <<>>]
SchemaR == [body |-> <<"owner">>, refs |-> <<PetRef>>]
(* The same members in two orders *)
SchemaAB == [body |-> <<"id", "name">>, refs |-> <<>>]
SchemaBA == [body |-> <<"name", "id">>, refs |-> <<>>]

(* Documents that hold components only *)
ComponentDocs ==
    {Doc(EmptyMap, Schemas(<< <<"Pet", SchemaA>> >>)),
     Doc(EmptyMap, Schemas(<< <<"Pet", SchemaB>>, <<"Pet1", SchemaR>> >>)),
     Doc(EmptyMap, Schemas(<< <<"Pet1", SchemaA>> >>)),
     Doc(EmptyMap, Some([EmptyComponents EXCEPT
                            !.schemas = MapOf(<< <<"Pet", SchemaR>> >>),
                            !.responses = MapOf(<< <<"Pet", SchemaB>> >>),
                            !.securitySchemes = MapOf(<< <<"key", SchemaA>> >>)]))}

ComponentInputs ==
    {MergeInputOf(doc, None, None, d, None) : doc \in ComponentDocs, d \in Disputes}
    \cup {MergeInputOf(doc, None, None, SuffixDispute("X", Some(TRUE)), Some("old")) :
            doc \in {Doc(EmptyMap, Schemas(<< <<"Pet", SchemaB>>, <<"Pet1", SchemaR>> >>))}}

(* Documents with paths and operations *)
PathDocs ==
    {Doc(MapOf(<< <<"/users", Item("get" :> Some(Op(Some("list"), <<>>, <<PetRef>>)))>> >>),
         Schemas(<< <<"Pet", SchemaB>> >>)),
     Doc(MapOf(<< <<"/users", Item(("get" :> Some(Op(Some("list"), <<>>, <<>>)))
                                   @@ ("put" :> Some(Op(Some("list"), <<>>, <<>>))))>> >>),
         None),
     Doc(MapOf(<< <<"/users", Item("get" :> Some(Op(Some("list1"), <<>>, <<>>)))>>,
                  <<"/v2/users", Item("put" :> Some(Op(Some("list"), <<>>, <<>>)))>> >>),
         None),
     Doc(MapOf(<< <<"/users", Item("options" :> Some(Op(None, <<>>, <<>>)))>>,
                  <<"/alias", RefItem(PathRef("/users"))>> >>),
         None)}

PathModifications ==
    {None, Some([strip_start |-> None, prepend |-> Some("/v2")])}

PathInputs ==
    {MergeInputOf(doc, pm, None, d, None) :
        doc \in PathDocs, pm \in PathModifications,
        d \in {None, PrefixDispute("svc", Some(FALSE))}}
    \cup {MergeInputOf(doc, pm, None, None, None) :
            doc \in {Doc(MapOf(<< <<"/users", Item("get" :> Some(Op(Some("list1"), <<>>, <<>>)))>>,
                                  <<"/v2/users", Item("put" :> Some(Op(Some("list"), <<>>, <<>>)))>> >>),
                         None)},
            pm \in {Some([strip_start |-> Some("/v2"), prepend |-> None]),
                    Some([strip_start |-> Some("/users"), prepend |-> Some("/u")])}}

(* A document with tagged operations, under operation selection *)
TaggedDoc ==
    Doc(MapOf(<< <<"/t", Item(("get" :> Some(Op(Some("a"), <<"public">>, <<>>)))
                              @@ ("put" :> Some(Op(Some("b"), <<"public", "internal">>, <<>>)))
                              @@ ("post" :> Some(Op(Some("list"), <<"internal">>, <<>>)))
                              @@ ("delete" :> Some(Op(None, <<>>, <<>>))))>>,
                 <<"/e", Item("get" :> Some(Op(Some("list"), <<"internal">>, <<>>)))>> >>),
        None)

SelectionInputs ==
    {MergeInputOf(TaggedDoc, None, sel, None, None) :
        sel \in {Some([include_tags |-> Some(<<"public">>), exclude_tags |-> Some(<<"internal">>)]),
                 Some([include_tags |-> None, exclude_tags |-> Some(<<"internal">>)]),
                 Some([include_tags |-> Some(<<"public">>), exclude_tags |-> None])}}
    \cup {MergeInputOf(Doc(MapOf(<< <<"/e", Item("get" :> Some(Op(Some("list"), <<"internal">>,
                                                                  <<PetRef>>)))>> >>),
                           Schemas(<< <<"Pet", SchemaB>> >>)),
                       None,
                       Some([include_tags |-> None, exclude_tags |-> Some(<<"internal">>)]),
                       None, None)}

(* Two documents that define Pet with the same content, written in two orders *)
EqualInputs ==
    {MergeInputOf(doc, None, None, None, None) :
        doc \in {Doc(EmptyMap, Schemas(<< <<"Pet", SchemaAB>>, <<"Owner", SchemaR>> >>)),
                 Doc(EmptyMap, Schemas(<< <<"Keeper", SchemaR>>, <<"Pet", SchemaBA>> >>))}}

(* A document with security schemes of its own *)
SecurityInputs ==
    {MergeInputOf(Doc(EmptyMap,
                      Some([EmptyComponents EXCEPT
                               !.securitySchemes = MapOf(<< <<"oauth", SchemaA>>,
                                                            <<"key", SchemaB>> >>)])),
                  None, None, None, None)}

(* A path item that refers to /users, beside two paths below /users that are renamed *)
PrefixRefInputs ==
    {MergeInputOf(Doc(MapOf(<< <<"/users", Item("get" :> Some(Op(None, <<>>, <<>>)))>>,
                               <<"/users/a", Item("get" :> Some(Op(None, <<>>, <<>>)))>>,
                               <<"/users/b", Item("get" :> Some(Op(None, <<>>, <<>>)))>>,
                               <<"/alias", RefItem(PathRef("/users"))>> >>),
                      None),
                  Some([strip_start |-> Some("/users/"), prepend |-> None]),
                  None, None, None)}

(* A document with a path item that has no operation *)
EmptyItemInputs ==
    {MergeInputOf(Doc(MapOf(<< <<"/ping", Item("get" :> Some(Op(Some("ping"), <<>>, <<>>)))>>,
                               <<"/empty", Item(NoOps)>> >>),
                      None),
                  pm, None, None, None) : pm \in PathModifications}
    \cup {MergeInputOf(Doc(MapOf(<< <<"/empty", Item("get" :> Some(Op(Some("e"), <<>>, <<>>)))>> >>),
                           None),
                       None, None, None, None)}

(* Inputs that set the legacy disputePrefix, alone and next to a dispute *)
LegacyInputs ==
    {MergeInputOf(Doc(MapOf(<< <<"/users", Item("get" :> Some(Op(Some("list"), <<>>, <<PetRef>>)))>> >>),
                      Schemas(<< <<"Pet", SchemaA>> >>)),
                  None, None, d, Some("old")) :
        d \in {None, SuffixDispute("X", Some(TRUE))}}

InputSet ==
    ComponentInputs \cup PathInputs \cup SelectionInputs \cup EqualInputs
    \cup SecurityInputs \cup PrefixRefInputs \cup EmptyItemInputs \cup LegacyInputs

(* The inputs of the lists of more than two *)
CoreInputs ==
    {MergeInputOf(doc, None, None, d, None) :
        doc \in {Doc(EmptyMap, Schemas(<< <<"Pet", SchemaA>> >>)),
                 Doc(EmptyMap, Schemas(<< <<"Pet", SchemaB>>, <<"Pet1", SchemaR>> >>))},
        d \in {None, PrefixDispute("svc", Some(TRUE))}}
    \cup {MergeInputOf(doc, pm, None, None, None) :
            doc \in {Doc(MapOf(<< <<"/users", Item(("get" :> Some(Op(Some("list"), <<>>, <<>>)))
                                   @@ ("put" :> Some(Op(Some("list"), <<>>, <<>>))))>> >>),
                         None)},
            pm \in PathModifications}

MaxInputs == 3

InputLists ==
    {<<>>} \cup {<<a>> : a \in InputSet} \cup {<<a, b>> : a \in InputSet, b \in InputSet}
    \cup UNION {[1..n -> CoreInputs] : n \in 3..MaxInputs}

----------------------------------------------------------------------------
(* merge (mod.rs) and merge_paths_and_components (paths_components.rs) *)

Err(error_type, message) == [kind |-> "Err", error_type |-> error_type, message |-> message]
Ok(output) == [kind |-> "Ok", output |-> output]
Panic == [kind |-> "Panic"]

Init ==
    /\ pc = "idle"
    /\ inputs = <<>>
    /\ input_index = 1
    /\ dispute = None
    /\ oas = Doc(EmptyMap, None)
    /\ reference_modification = <<>>
    /\ kind_index = 1
    /\ entry_index = 1
    /\ seen_operation_ids = {}
    /\ result_paths = EmptyMap
    /\ result_components = EmptyComponents
    /\ result = None
    /\ call = None
    /\ preserve_order \in BOOLEAN

(* The first kind at or after k whose map in components is not empty, else Len(Kinds)+1 *)
RECURSIVE FirstKindFrom(_, _)
FirstKindFrom(components, k) ==
    IF k > Len(Kinds) THEN k
    ELSE IF ~MapIsEmpty(components[Kinds[k]]) THEN k
    ELSE FirstKindFrom(components, k + 1)

PcAfterComponents(doc) == IF MapIsEmpty(doc.paths) THEN "walk" ELSE "paths"

(* merge with the bug of not refusing the empty list: the loop runs zero times *)
MergeCallUnchecked ==
    /\ pc = "idle"
    /\ \E ins \in InputLists :
          /\ inputs' = ins
          /\ result' = None
          /\ pc' = IF Len(ins) = 0 THEN "assemble" ELSE "input"
    /\ input_index' = 1
    /\ seen_operation_ids' = {}
    /\ result_paths' = EmptyMap
    /\ result_components' = EmptyComponents
    /\ UNCHANGED <<dispute, oas, reference_modification, kind_index, entry_index, call,
                   preserve_order>>

(* merge is called: the empty list is refused, the accumulators are created *)
MergeCall ==
    /\ pc = "idle"
    /\ \E ins \in InputLists :
          /\ inputs' = ins
          /\ IF Len(ins) = 0
             THEN /\ result' = Some(Err("NoInputs", <<>>))
                  /\ pc' = "done"
             ELSE /\ result' = None
                  /\ pc' = "input"
    /\ input_index' = 1
    /\ seen_operation_ids' = {}
    /\ result_paths' = EmptyMap
    /\ result_components' = EmptyComponents
    /\ UNCHANGED <<dispute, oas, reference_modification, kind_index, entry_index, call, preserve_order>>

(* The head of the loop body with the bug of selecting and dropping in the      *)
(* caller's document instead of a scratch copy                                  *)
BeginInputInPlace ==
    /\ pc = "input"
    /\ LET input == inputs[input_index]
           doc == DropPathItemsWithNoOperations(
                      RunOperationSelection(RoundTripOas(input.oas, preserve_order),
                                            input.operation_selection))
       IN /\ dispute' = GetDispute(input)
          /\ oas' = doc
          /\ inputs' = [inputs EXCEPT ![input_index].oas = doc]
          /\ kind_index' = IF IsSome(doc.components)
                           THEN FirstKindFrom(doc.components[1], 1) ELSE 1
          /\ pc' = IF IsNone(doc.components) THEN PcAfterComponents(doc)
                   ELSE IF FirstKindFrom(doc.components[1], 1) > Len(Kinds) THEN "security"
                   ELSE "components"
    /\ reference_modification' = <<>>
    /\ entry_index' = 1
    /\ UNCHANGED <<input_index, seen_operation_ids, result_paths,
                   result_components, result, call, preserve_order>>

(* The head of the loop body: the scratch copy, operation selection, the drop *)
(* of empty path items, and a fresh rewrite table                             *)
BeginInput ==
    /\ pc = "input"
    /\ LET input == inputs[input_index]
           doc == DropPathItemsWithNoOperations(
                      RunOperationSelection(RoundTripOas(input.oas, preserve_order),
                                            input.operation_selection))
       IN /\ dispute' = GetDispute(input)
          /\ oas' = doc
          /\ kind_index' = IF IsSome(doc.components)
                           THEN FirstKindFrom(doc.components[1], 1) ELSE 1
          /\ pc' = IF IsNone(doc.components) THEN PcAfterComponents(doc)
                   ELSE IF FirstKindFrom(doc.components[1], 1) > Len(Kinds) THEN "security"
                   ELSE "components"
    /\ reference_modification' = <<>>
    /\ entry_index' = 1
    /\ UNCHANGED <<inputs, input_index, seen_operation_ids, result_paths,
                   result_components, result, call, preserve_order>>

(* One iteration of the loop of process_components_with_prefix *)
ProcessComponent ==
    /\ pc = "components"
    /\ LET prefix == Kinds[kind_index]
           components == oas.components[1][prefix]
           key == components.keys[entry_index]
           r == ProcessOneComponent(result_components[prefix], key, components.vals[key],
                                    dispute, reference_modification, prefix)
           next_kind == FirstKindFrom(oas.components[1], kind_index + 1)
       IN IF r.err
          THEN /\ result' = Some(Err("ComponentDefinitionConflict", <<key>>))
               /\ pc' = "done"
               /\ reference_modification' = r.reference_modification
               /\ UNCHANGED <<result_components, kind_index, entry_index>>
          ELSE /\ result_components' = [result_components EXCEPT ![prefix] = r.results]
               /\ reference_modification' = r.reference_modification
               /\ IF entry_index < MapLen(components)
                  THEN /\ entry_index' = entry_index + 1
                       /\ UNCHANGED <<kind_index, pc>>
                  ELSE /\ entry_index' = 1
                       /\ kind_index' = next_kind
                       /\ pc' = IF next_kind > Len(Kinds) THEN "security" ELSE "components"
               /\ UNCHANGED result
    /\ UNCHANGED <<inputs, input_index, dispute, oas, seen_operation_ids, result_paths, call, preserve_order>>

(* Security schemes with the bug of taking them from the last input that has any *)
TakeSecuritySchemesLast ==
    /\ pc = "security"
    /\ result_components' =
          IF ~MapIsEmpty(oas.components[1].securitySchemes)
          THEN [result_components EXCEPT
                   !.securitySchemes = oas.components[1].securitySchemes]
          ELSE result_components
    /\ pc' = PcAfterComponents(oas)
    /\ entry_index' = 1
    /\ UNCHANGED <<inputs, input_index, dispute, oas, reference_modification, kind_index,
                   seen_operation_ids, result_paths, result, call, preserve_order>>

(* Security schemes: taken whole from the first input that has any *)
TakeSecuritySchemes ==
    /\ pc = "security"
    /\ result_components' =
          IF MapIsEmpty(result_components.securitySchemes)
             /\ ~MapIsEmpty(oas.components[1].securitySchemes)
          THEN [result_components EXCEPT
                   !.securitySchemes = oas.components[1].securitySchemes]
          ELSE result_components
    /\ pc' = PcAfterComponents(oas)
    /\ entry_index' = 1
    /\ UNCHANGED <<inputs, input_index, dispute, oas, reference_modification, kind_index,
                   seen_operation_ids, result_paths, result, call, preserve_order>>

(* One iteration of the loop over oas.paths *)
ProcessPath ==
    /\ pc = "paths"
    /\ LET original_path == oas.paths.keys[entry_index]
           path_item == oas.paths.vals[original_path]
           new_path == ApplyPathModification(original_path,
                                             inputs[input_index].path_modification)
           refmod1 == IF original_path # new_path
                      THEN HashInsert(reference_modification, PathRef(original_path),
                                      PathRef(new_path))
                      ELSE reference_modification
           e == EnsureUniqueOperationIds(path_item, seen_operation_ids, dispute)
       IN /\ reference_modification' = refmod1
          /\ IF IsDuplicatePath(result_paths, new_path)
             THEN /\ result' = Some(Err("DuplicatePaths",
                                        <<input_index - 1, original_path, new_path>>))
                  /\ pc' = "done"
                  /\ UNCHANGED <<result_paths, seen_operation_ids, entry_index>>
             ELSE IF IsSome(e.err)
             THEN /\ result' = Some(Err("OperationIdConflict", <<e.err[1]>>))
                  /\ pc' = "done"
                  /\ seen_operation_ids' = e.seen
                  /\ UNCHANGED <<result_paths, entry_index>>
             ELSE /\ result_paths' = MapInsert(result_paths, new_path, e.path_item)
                  /\ seen_operation_ids' = e.seen
                  /\ IF entry_index < MapLen(oas.paths)
                     THEN entry_index' = entry_index + 1 /\ pc' = "paths"
                     ELSE entry_index' = 1 /\ pc' = "walk"
                  /\ UNCHANGED result
    /\ UNCHANGED <<inputs, input_index, dispute, oas, kind_index, result_components, call, preserve_order>>

(* walk_all_references over the scratch copy, and the end of the loop body *)
WalkReferences ==
    /\ pc = "walk"
    /\ IF WalkPanics(oas, reference_modification)
       THEN /\ result' = Some(Panic)
            /\ pc' = "done"
            /\ UNCHANGED <<oas, input_index>>
       ELSE /\ oas' = WalkAllReferences(oas, reference_modification)
            /\ input_index' = input_index + 1
            /\ pc' = IF input_index = Len(inputs) THEN "assemble" ELSE "input"
            /\ UNCHANGED result
    /\ UNCHANGED <<inputs, dispute, reference_modification, kind_index, entry_index,
                   seen_operation_ids, result_paths, result_components, call, preserve_order>>

(* Ok((result_paths, result_components)) and the output built by merge *)
Assemble ==
    /\ pc = "assemble"
    /\ result' = Some(Ok(Doc(result_paths, Some(result_components))))
    /\ pc' = "done"
    /\ UNCHANGED <<inputs, input_index, dispute, oas, reference_modification, kind_index,
                   entry_index, seen_operation_ids, result_paths, result_components, call, preserve_order>>

Next ==
    \/ MergeCall
    \/ BeginInput
    \/ ProcessComponent
    \/ TakeSecuritySchemes
    \/ ProcessPath
    \/ WalkReferences
    \/ Assemble

Spec == Init /\ [][Next]_vars

----------------------------------------------------------------------------
(* What the claims speak about *)

AllKinds == {Kinds[k] : k \in 1..Len(Kinds)} \cup {"securitySchemes"}

(* ref names a component or a path that is present in doc *)
Resolves(ref, doc) ==
    \/ /\ IsSome(doc.components)
       /\ \E kind \in AllKinds : \E name \in MapKeySet(doc.components[1][kind]) :
             ref = ComponentRef(kind, name)
    \/ \E path \in MapKeySet(doc.paths) : ref = PathRef(path)

SelfContained(doc) == \A r \in WalkedRefs(doc) : Resolves(r, doc)

Returned == pc = "done" /\ IsSome(result)
ReturnedOk == Returned /\ result[1].kind = "Ok"
ReturnedErr(error_type) ==
    Returned /\ result[1].kind = "Err" /\ result[1].error_type = error_type
Output == result[1].output

(* The input whose loop body has just ended, and its document as it was merged: *)
(* after operation selection and the drop of empty path items, before the walk  *)
InputDone == pc \in {"input", "assemble"} /\ input_index > 1
LastInput == inputs[input_index - 1]
LastMerged ==
    DropPathItemsWithNoOperations(
        RunOperationSelection(RoundTripOas(LastInput.oas, preserve_order),
                              LastInput.operation_selection))

(* C1: for self-contained inputs, merge returns an error or a document in which *)
(* every $ref of its paths and components names a component or path present in *)
(* that same document.                                                          *)
C1_RefsResolve ==
    (Returned /\ \A i \in 1..Len(inputs) : SelfContained(inputs[i].oas))
        => \/ result[1].kind = "Err"
           \/ result[1].kind = "Ok" /\ SelfContained(Output)

(* The name under which the rewrite table says component key of kind prefix was placed *)
PlacedRef(prefix, key) ==
    IF ComponentRef(prefix, key) \in DOMAIN reference_modification
    THEN reference_modification[ComponentRef(prefix, key)]
    ELSE ComponentRef(prefix, key)

(* The reference the merged copy must read where the input read ref *)
Rewritten(ref) ==
    IF \E k \in 1..Len(Kinds) :
           \E key \in MapKeySet(LastMerged.components[1][Kinds[k]]) :
               ref = ComponentRef(Kinds[k], key)
    THEN (IF ref \in DOMAIN reference_modification
          THEN reference_modification[ref] ELSE ref)
    ELSE ref

(* C2: when a component of an input is placed under another name, every $ref of *)
(* that input's path items and components that read the old name reads the new *)
(* name in what was merged from that input.                                    *)
C2_RenamedRefsFollow ==
    (InputDone /\ IsSome(LastMerged.components)) =>
        /\ \A p \in MapKeySet(LastMerged.paths) :
              LET merged == result_paths.vals[
                                ApplyPathModification(p, LastInput.path_modification)]
                  item == LastMerged.paths.vals[p]
              IN \A m \in Methods :
                    IsSome(item.ops[m]) =>
                        \A i \in 1..Len(item.ops[m][1].refs) :
                            merged.ops[m][1].refs[i] = Rewritten(item.ops[m][1].refs[i])
        /\ \A k \in 1..Len(Kinds) :
              \A key \in MapKeySet(LastMerged.components[1][Kinds[k]]) :
                 \A n \in MapKeySet(result_components[Kinds[k]]) :
                    ComponentRef(Kinds[k], n) = PlacedRef(Kinds[k], key) =>
                        LET own == LastMerged.components[1][Kinds[k]].vals[key]
                            merged == result_components[Kinds[k]].vals[n]
                        IN \A i \in 1..Len(own.refs) :
                              merged.refs[i] = Rewritten(own.refs[i])

(* The operationIds of a document, and the operations that carry one *)
OperationsWithId(doc) ==
    {<<p, m>> \in MapKeySet(doc.paths) \X Methods :
        /\ ~doc.paths.vals[p].is_ref
        /\ IsSome(doc.paths.vals[p].ops[m])
        /\ IsSome(doc.paths.vals[p].ops[m][1].operation_id)}
OperationIdAt(doc, pm) == doc.paths.vals[pm[1]].ops[pm[2]][1].operation_id[1]
OperationIds(doc) == {OperationIdAt(doc, pm) : pm \in OperationsWithId(doc)}

(* C3: in a returned document the operationIds of all operations are pairwise distinct *)
C3_OperationIdsDistinct ==
    ReturnedOk =>
        \A a \in OperationsWithId(Output) : \A b \in OperationsWithId(Output) :
            a # b => OperationIdAt(Output, a) # OperationIdAt(Output, b)

(* A returned document holding an operationId that no input holds: a collision *)
(* of operationIds was resolved by renaming                                    *)
C3_Witness ==
    /\ ReturnedOk
    /\ \E id \in OperationIds(Output) :
          \A i \in 1..Len(inputs) : id \notin OperationIds(inputs[i].oas)

(* The document of input i as it is merged: after operation selection and the *)
(* drop of empty path items                                                   *)
Merged(i) ==
    DropPathItemsWithNoOperations(
        RunOperationSelection(RoundTripOas(inputs[i].oas, preserve_order),
                              inputs[i].operation_selection))

(* The path items of all inputs in processing order, each with its modified path *)
RECURSIVE PathsFrom(_)
PathsFrom(i) ==
    IF i > Len(inputs) THEN <<>>
    ELSE [n \in 1..MapLen(Merged(i).paths) |->
            [input_index |-> i - 1,
             original_path |-> Merged(i).paths.keys[n],
             new_path |-> ApplyPathModification(Merged(i).paths.keys[n],
                                                inputs[i].path_modification),
             path_item |-> Merged(i).paths.vals[Merged(i).paths.keys[n]]]]
         \o PathsFrom(i + 1)
AllPaths == PathsFrom(1)
DuplicateAt == {n \in 1..Len(AllPaths) :
                   \E k \in 1..(n - 1) : AllPaths[k].new_path = AllPaths[n].new_path}
FirstDuplicate == CHOOSE n \in DuplicateAt : \A k \in DuplicateAt : n <= k

(* A path item but for its operationIds *)
WithoutOperationIds(path_item) ==
    [path_item EXCEPT !.ops =
        [m \in Methods |->
            IF IsSome(path_item.ops[m])
            THEN Some([path_item.ops[m][1] EXCEPT !.operation_id = None])
            ELSE None]]

(* C4: merge fails with DuplicatePaths exactly at the first path item, in       *)
(* processing order, whose modified path is already a key of the accumulated    *)
(* paths (from an earlier input or from the same one); when there is none every *)
(* non-empty path item is in the output under its modified path.                *)
C4_DuplicatePaths ==
    Returned =>
        /\ ReturnedErr("DuplicatePaths") =>
              /\ DuplicateAt # {}
              /\ result[1].message =
                    <<AllPaths[FirstDuplicate].input_index,
                      AllPaths[FirstDuplicate].original_path,
                      AllPaths[FirstDuplicate].new_path>>
              /\ result_paths.keys =
                    [n \in 1..(FirstDuplicate - 1) |-> AllPaths[n].new_path]
        /\ DuplicateAt # {} => result[1].kind # "Ok"
        /\ ReturnedOk =>
              /\ Output.paths.keys = [n \in 1..Len(AllPaths) |-> AllPaths[n].new_path]
              /\ \A n \in 1..Len(AllPaths) :
                    WithoutOperationIds(Output.paths.vals[AllPaths[n].new_path])
                        = WithoutOperationIds(AllPaths[n].path_item)

(* DuplicatePaths raised by the second input for a path the first input holds *)
C4_Witness ==
    /\ ReturnedErr("DuplicatePaths")
    /\ result[1].message[1] = 1
    /\ \E n \in 1..Len(AllPaths) :
          AllPaths[n].input_index = 0 /\ AllPaths[n].new_path = result[1].message[3]

----------------------------------------------------------------------------
(* Merges over accumulators large enough to exhaust the numeric suffixes *)

(* Pet and Pet1 .. Pet<n>, all with the same body; svcPet too when with_svc *)
BulkSchemas(n, with_svc) ==
    [keys |-> [i \in 1..(n + 1) |-> IF i = 1 THEN "Pet" ELSE "Pet" \o ToString(i - 1)]
              \o (IF with_svc THEN <<"svcPet">> ELSE <<>>),
     vals |-> [k \in {"Pet"} \cup {"Pet" \o ToString(i) : i \in 1..n}
                     \cup (IF with_svc THEN {"svcPet"} ELSE {}) |-> SchemaA]]

BulkComponentInputs ==
    {MergeInputOf(Doc(EmptyMap, Some([EmptyComponents EXCEPT
                                         !.schemas = BulkSchemas(n, with_svc)])),
                  None, None, None, None) :
        n \in {0, 1, ComponentAntiConflictEnd - 2, ComponentAntiConflictEnd - 1},
        with_svc \in BOOLEAN}

(* The operationIds list, list1 .. list<n> spread over path items /p1, /p2, ... *)
BulkOperationId(k) == IF k = 0 THEN "list" ELSE "list" \o ToString(k)
BulkSlots == <<"get", "put", "post", "delete", "options", "head", "patch", "trace">>
BulkPathItem(j, n) ==
    [is_ref |-> FALSE, reference |-> "", parameters |-> <<>>,
     ops |-> [m \in Methods |->
                LET s == CHOOSE i \in 1..Len(BulkSlots) : BulkSlots[i] = m
                    k == Len(BulkSlots) * (j - 1) + (s - 1)
                IN IF k <= n THEN Some(Op(Some(BulkOperationId(k)), <<>>, <<>>)) ELSE None]]
BulkPaths(n) ==
    [keys |-> [j \in 1..((n \div Len(BulkSlots)) + 1) |-> "/p" \o ToString(j)],
     vals |-> [p \in {"/p" \o ToString(j) : j \in 1..((n \div Len(BulkSlots)) + 1)} |->
                 BulkPathItem(CHOOSE j \in 1..((n \div Len(BulkSlots)) + 1) :
                                  p = "/p" \o ToString(j), n)]]

BulkOperationInputs ==
    {MergeInputOf(Doc(BulkPaths(n), None), None, None, None, None) :
        n \in {OperationIdAntiConflictEnd - 2, OperationIdAntiConflictEnd - 1}}

(* What is merged after them: a different Pet, an operation list *)
CollidingInputs ==
    {MergeInputOf(Doc(MapOf(<< <<"/users",
                                 Item("get" :> Some(Op(Some("list"), <<>>, <<PetRef>>)))>> >>),
                      Schemas(<< <<"Pet", SchemaB>> >>)),
                  None, None, d, None) :
        d \in {None, PrefixDispute("svc", Some(FALSE)), SuffixDispute("1", None)}}

BulkLists ==
    {<<a, b>> : a \in BulkComponentInputs \cup BulkOperationInputs, b \in CollidingInputs}

MergeCallBulk ==
    /\ pc = "idle"
    /\ \E ins \in BulkLists : inputs' = ins
    /\ result' = None
    /\ pc' = "input"
    /\ input_index' = 1
    /\ seen_operation_ids' = {}
    /\ result_paths' = EmptyMap
    /\ result_components' = EmptyComponents
    /\ UNCHANGED <<dispute, oas, reference_modification, kind_index, entry_index, call, preserve_order>>

NextBulk ==
    \/ MergeCallBulk
    \/ BeginInput
    \/ ProcessComponent
    \/ TakeSecuritySchemes
    \/ ProcessPath
    \/ WalkReferences
    \/ Assemble

SpecBulk == Init /\ [][NextBulk]_vars

----------------------------------------------------------------------------
(* The component about to be processed by ProcessComponent *)
CurPrefix == Kinds[kind_index]
CurKey == oas.components[1][CurPrefix].keys[entry_index]
CurComponent == oas.components[1][CurPrefix].vals[CurKey]
CurResults == result_components[CurPrefix]
CurModified == ApplyDispute(dispute, CurKey, "Undisputed")
CurPreferred == ApplyDispute(dispute, CurKey, "Disputed")

(* Two component values are structurally equal: the same members, whatever *)
(* their order, and the same references                                    *)
StructurallyEqual(x, y) ==
    /\ \A i \in 1..Len(x.body) : \E j \in 1..Len(y.body) : x.body[i] = y.body[j]
    /\ \A j \in 1..Len(y.body) : \E i \in 1..Len(x.body) : x.body[i] = y.body[j]
    /\ x.refs = y.refs

(* The accumulator holds a structurally different value at the modified name *)
CurConflict ==
    /\ pc = "components"
    /\ MapHas(CurResults, CurModified)
    /\ ~StructurallyEqual(MapGet(CurResults, CurModified), CurComponent)
(* The dispute name can take the component *)
CurDisputeFree ==
    /\ IsSome(dispute)
    /\ (MapHas(CurResults, CurPreferred)
          => StructurallyEqual(MapGet(CurResults, CurPreferred), CurComponent))
(* The k in 1..999 for which name+k is absent from the accumulator *)
CurFreeSuffixes == {k \in 1..999 : (CurKey \o ToString(k)) \notin DOMAIN CurResults.vals}
CurSmallestFree == CHOOSE k \in CurFreeSuffixes : \A j \in CurFreeSuffixes : k <= j
(* The name the claim gives the component *)
CurExpectedName ==
    IF CurDisputeFree THEN CurPreferred ELSE CurKey \o ToString(CurSmallestFree)

(* C5: a component that meets a different value at its modifiedName is placed   *)
(* at the dispute name when a dispute is configured and that name is absent or  *)
(* holds an equal value, else at name+k for the smallest k in 1..999 with       *)
(* name+k absent (the suffix goes on the original name); the rewrite table maps *)
(* #/components/K/name to the name chosen.                                      *)
C5_ConflictPlacement ==
    [][(CurConflict /\ (CurDisputeFree \/ CurFreeSuffixes # {})) =>
          LET expected == CurExpectedName
              placed == result_components'[CurPrefix]
          IN /\ placed.keys = IF MapHas(CurResults, expected) THEN CurResults.keys
                              ELSE Append(CurResults.keys, expected)
             /\ DOMAIN placed.vals = (DOMAIN CurResults.vals) \cup {expected}
             /\ placed.vals[expected] = CurComponent
             /\ \A k \in DOMAIN CurResults.vals :
                   k # expected => placed.vals[k] = CurResults.vals[k]
             /\ reference_modification'[ComponentRef(CurPrefix, CurKey)]
                   = ComponentRef(CurPrefix, expected)
             /\ result' = None
      ]_vars

(* Under an always-applied prefix the component Pet met a different value at   *)
(* svcPet, could not take the dispute name and was placed at Pet1               *)
C5_Witness ==
    /\ IsSome(dispute)
    /\ dispute[1].variant = "Prefix"
    /\ dispute[1].always_apply = Some(TRUE)
    /\ PetRef \in DOMAIN reference_modification
    /\ reference_modification[PetRef] = ComponentRef("schemas", "Pet1")
    /\ MapHas(result_components.schemas, "Pet1")
    /\ MapHas(result_components.schemas, "svcPet")

(* C6: merge fails with ComponentDefinitionConflict if and only if a component  *)
(* meets a different value at its modifiedName, the dispute name (when a        *)
(* dispute is configured) is held by a different value too, and name+1 ..       *)
(* name+999 are all present; name+999 is tried and name+1000 is never used.     *)
C6_ConflictError ==
    [][/\ pc = "components" =>
            ((result' = Some(Err("ComponentDefinitionConflict", <<CurKey>>)))
                <=> (CurConflict /\ ~CurDisputeFree /\ CurFreeSuffixes = {}))
       /\ (CurConflict /\ ~CurDisputeFree /\ CurFreeSuffixes = {999}) =>
            /\ MapGet(result_components'[CurPrefix], CurKey \o "999") = CurComponent
            /\ result' = None
       /\ (CurConflict /\ ~CurDisputeFree) =>
            ~MapHas(result_components'[CurPrefix], CurKey \o "1000")
       /\ (pc # "components" /\ result = None) =>
            ~(/\ result' # None
              /\ result'[1].kind = "Err"
              /\ result'[1].error_type = "ComponentDefinitionConflict")
      ]_vars

(* merge failed with ComponentDefinitionConflict *)
C6_Witness == ReturnedErr("ComponentDefinitionConflict")

----------------------------------------------------------------------------
(* The path item about to be processed by ProcessPath *)
CurPath == oas.paths.keys[entry_index]
CurPathItem == oas.paths.vals[CurPath]
CurNewPath == ApplyPathModification(CurPath, inputs[input_index].path_modification)
(* The slots, by their place in the order of handling, that carry an operationId *)
CurSlotsWithId ==
    {i \in 1..Len(SlotOrder) :
        /\ ~CurPathItem.is_ref
        /\ IsSome(CurPathItem.ops[SlotOrder[i]])
        /\ IsSome(CurPathItem.ops[SlotOrder[i]][1].operation_id)}
CurOperationId(i) == CurPathItem.ops[SlotOrder[i]][1].operation_id[1]

(* id is the operationId the claim gives an operation whose id was original, *)
(* the ids in seen being taken                                                *)
IsIdOfClaim(id, original, seen) ==
    LET disputed == ApplyDispute(dispute, original, "Disputed")
        by_dispute == IsSome(dispute) /\ disputed \notin seen
        free == {k \in 1..999 : (original \o ToString(k)) \notin seen}
    IN \/ original \notin seen /\ id = original
       \/ original \in seen /\ by_dispute /\ id = disputed
       \/ /\ original \in seen
          /\ ~by_dispute
          /\ free # {}
          /\ id = original \o ToString(CHOOSE k \in free : \A j \in free : k <= j)

(* C7: the operationId written for an operation is the original id if it is not *)
(* yet seen, else the dispute name if a dispute is configured and that name is  *)
(* not yet seen, else id+k for the smallest k in 1..999 not yet seen; merge     *)
(* fails with OperationIdConflict only when none of these is free.              *)
C7_OperationIdChoice ==
    [][pc = "paths" =>
          /\ (result' = None) =>
                LET written == result_paths'.vals[CurNewPath]
                    WrittenId(i) == written.ops[SlotOrder[i]][1].operation_id[1]
                IN /\ \A i \in CurSlotsWithId :
                         IsIdOfClaim(WrittenId(i), CurOperationId(i),
                                     seen_operation_ids
                                        \cup {WrittenId(j) : j \in {x \in CurSlotsWithId : x < i}})
                   /\ seen_operation_ids'
                         = seen_operation_ids \cup {WrittenId(i) : i \in CurSlotsWithId}
          /\ (result' # None /\ result'[1].error_type = "OperationIdConflict") =>
                LET id == result'[1].message[1]
                    taken == seen_operation_ids'
                IN /\ \E i \in CurSlotsWithId : CurOperationId(i) = id
                   /\ id \in taken
                   /\ IsSome(dispute) => ApplyDispute(dispute, id, "Disputed") \in taken
                   /\ \A k \in 1..999 : (id \o ToString(k)) \in taken
      ]_vars

(* Under the dispute prefix svc an operation list, list being taken, was written *)
(* as svclist                                                                    *)
C7_Witness ==
    /\ dispute = PrefixDispute("svc", Some(FALSE))
    /\ "list" \in seen_operation_ids
    /\ \E p \in MapKeySet(result_paths) :
          /\ p \in MapKeySet(oas.paths)
          /\ IsSome(oas.paths.vals[p].ops["get"])
          /\ oas.paths.vals[p].ops["get"][1].operation_id = Some("list")
          /\ result_paths.vals[p].ops["get"][1].operation_id = Some("svclist")

----------------------------------------------------------------------------
(* The helper functions called on their own, and merges of one input under *)
(* operation selection                                                      *)

FnDisputes ==
    {None}
    \cup {PrefixDispute(t, a) : t \in {"svc", "", "_v2"}, a \in {None, Some(TRUE), Some(FALSE)}}
    \cup {SuffixDispute(t, a) : t \in {"svc", "", "_v2"}, a \in {None, Some(TRUE), Some(FALSE)}}
FnNames == {"Pet", "list", ""}
DisputeStatuses == {"Disputed", "Undisputed"}

FnPaths == {"/users", "/api/users", "/api", "", "/apiv2/x", "/v1/api"}
FnPathModifications ==
    {None}
    \cup {Some([strip_start |-> s, prepend |-> p]) :
            s \in {None, Some(""), Some("/api"), Some("/v1")},
            p \in {None, Some(""), Some("/api"), Some("/v2")}}

TagLists == {<<>>, <<"public">>, <<"internal">>, <<"public", "internal">>}
SelectionDocs ==
    {Doc(MapOf(<< <<"/t", Item(("get" :> Some(Op(Some("a"), t1, <<>>)))
                               @@ ("put" :> Some(Op(None, t2, <<PetRef>>))))>>,
                  <<"/r", RefItem(PathRef("/t"))>> >>),
         Schemas(<< <<"Pet", SchemaA>> >>)) :
        t1 \in TagLists, t2 \in TagLists}
Selections ==
    {None}
    \cup {Some([include_tags |-> i, exclude_tags |-> e]) :
            i \in {None, Some(<<>>), Some(<<"public">>), Some(<<"public", "internal">>)},
            e \in {None, Some(<<>>), Some(<<"internal">>), Some(<<"public">>)}}

FnLists ==
    {<<MergeInputOf(doc, pm, sel, None, None)>> :
        doc \in SelectionDocs, pm \in PathModifications, sel \in Selections}
    \cup {<<a>> : a \in PrefixRefInputs}

NoTable == [key \in {} |-> ""]
FnTables ==
    {NoTable,
     [key \in {"#/a"} |-> "#/b"],
     [key \in {"#/a/x"} |-> "#/c"],
     [key \in {"#/a/x", "#/a/y"} |-> IF key = "#/a/x" THEN "#/c" ELSE "#/d"],
     [key \in {"#/a", "#/a/x", "#/a/y"} |->
         IF key = "#/a" THEN "#/b" ELSE IF key = "#/a/x" THEN "#/c" ELSE "#/d"],
     [key \in {"#/ab/x"} |-> "#/e"]}
FnRefs == {"#/a", "#/ab", "#/z"}

(* The closure handed to walk_all_references, on one reference string *)
CallModify ==
    /\ pc = "idle"
    /\ \E refmod \in FnTables, ref_path \in FnRefs :
          call' = Some([fn |-> "modify", args |-> <<refmod, ref_path>>,
                        ret |-> IF ModifyPanics(refmod, ref_path) THEN Panic
                                ELSE Ok(Modify(refmod, ref_path))])
    /\ UNCHANGED <<pc, inputs, input_index, dispute, oas, reference_modification, kind_index,
                   entry_index, seen_operation_ids, result_paths, result_components, result,
                   preserve_order>>

CallApplyDispute ==
    /\ pc = "idle"
    /\ \E d \in FnDisputes, input \in FnNames, status \in DisputeStatuses :
          call' = Some([fn |-> "apply_dispute", args |-> <<d, input, status>>,
                        ret |-> ApplyDispute(d, input, status)])
    /\ UNCHANGED <<pc, inputs, input_index, dispute, oas, reference_modification, kind_index,
                   entry_index, seen_operation_ids, result_paths, result_components, result,
                   preserve_order>>

CallApplyPathModification ==
    /\ pc = "idle"
    /\ \E path \in FnPaths, path_modification \in FnPathModifications :
          call' = Some([fn |-> "apply_path_modification",
                        args |-> <<path, path_modification>>,
                        ret |-> ApplyPathModification(path, path_modification)])
    /\ UNCHANGED <<pc, inputs, input_index, dispute, oas, reference_modification, kind_index,
                   entry_index, seen_operation_ids, result_paths, result_components, result,
                   preserve_order>>

CallRunOperationSelection ==
    /\ pc = "idle"
    /\ \E doc \in SelectionDocs, operation_selection \in Selections :
          call' = Some([fn |-> "run_operation_selection",
                        args |-> <<doc, operation_selection>>,
                        ret |-> RunOperationSelection(doc, operation_selection)])
    /\ UNCHANGED <<pc, inputs, input_index, dispute, oas, reference_modification, kind_index,
                   entry_index, seen_operation_ids, result_paths, result_components, result,
                   preserve_order>>

(* merge_infos and merge_tags read only the info, the tags and the two            *)
(* configuration fields of an input; the inputs of the calls carry those fields.  *)
Whitespace == {" ", "\n", "\t", "\r"}

RECURSIVE TrimEnd(_)
TrimEnd(s) ==
    IF Len(s) > 0 /\ SubSeq(s, Len(s), Len(s)) \in Whitespace
    THEN TrimEnd(SubSeq(s, 1, Len(s) - 1))
    ELSE s

RECURSIVE Repeat(_, _)
Repeat(s, n) == IF n = 0 THEN "" ELSE s \o Repeat(s, n - 1)

RECURSIVE Join(_, _)
Join(pieces, sep) ==
    IF Len(pieces) = 0 THEN ""
    ELSE IF Len(pieces) = 1 THEN pieces[1]
    ELSE pieces[1] \o sep \o Join(Tail(pieces), sep)

DefaultHeadingLevel == 1

GetInfoDescriptionWithHeading(input) ==
    IF input.oas.info.description = None THEN None
    ELSE LET trimmed_description == TrimEnd(input.oas.info.description[1])
         IN IF input.description = None THEN Some(trimmed_description)
            ELSE IF input.description[1].title = None THEN None
            ELSE LET title == input.description[1].title[1]
                     heading_level == IF IsSome(title.heading_level)
                                      THEN title.heading_level[1] ELSE DefaultHeadingLevel
                     heading == Repeat("#", heading_level)
                 IN Some(heading \o " " \o title.value \o "\n\n" \o trimmed_description)

RECURSIVE AppendedDescriptions(_)
AppendedDescriptions(ins) ==
    IF Len(ins) = 0 THEN <<>>
    ELSE LET input == Head(ins)
             piece == IF IsSome(input.description) /\ input.description[1].append
                      THEN GetInfoDescriptionWithHeading(input) ELSE None
         IN piece \o AppendedDescriptions(Tail(ins))

MergeInfos(ins) ==
    IF Len(ins) = 0
    THEN [title |-> "Merged API", version |-> "1.0.0", description |-> None]
    ELSE LET appended_descriptions == AppendedDescriptions(ins)
         IN IF Len(appended_descriptions) # 0
            THEN [ins[1].oas.info EXCEPT !.description = Some(Join(appended_descriptions, "\n\n"))]
            ELSE ins[1].oas.info

ExcludeTagsNone(input) == <<>>

ExcludeTags(input) ==
    IF IsSome(input.operation_selection) /\ IsSome(input.operation_selection[1].exclude_tags)
    THEN input.operation_selection[1].exclude_tags[1]
    ELSE <<>>

RECURSIVE PushTags(_, _, _)
PushTags(tags, exclude_tags, acc) ==
    IF Len(tags) = 0 THEN acc
    ELSE LET tag == Head(tags)
             next == IF /\ \A k \in 1..Len(exclude_tags) : exclude_tags[k] # tag.name
                        /\ tag.name \notin acc.seen_tags
                     THEN [result |-> Append(acc.result, tag),
                           seen_tags |-> acc.seen_tags \cup {tag.name}]
                     ELSE acc
         IN PushTags(Tail(tags), exclude_tags, next)

RECURSIVE MergeTagsFrom(_, _)
MergeTagsFrom(ins, acc) ==
    IF Len(ins) = 0 THEN acc
    ELSE MergeTagsFrom(Tail(ins), PushTags(Head(ins).oas.tags, ExcludeTags(Head(ins)), acc))

MergeTags(ins) ==
    LET merged == MergeTagsFrom(ins, [result |-> <<>>, seen_tags |-> {}]).result
    IN IF Len(merged) = 0 THEN None ELSE Some(merged)

OutputTags(ins) == IF IsSome(MergeTags(ins)) THEN MergeTags(ins)[1] ELSE <<>>

MaxCallInputs == 2

InfoDescriptions == {None, Some("Pets"), Some("Pets \n"), Some("Users\n\n")}
DescriptionTitles ==
    {None,
     Some([value |-> "Pets API", heading_level |-> None]),
     Some([value |-> "Users", heading_level |-> Some(2)])}
DescriptionConfigs ==
    {None} \cup {Some([append |-> a, title |-> t]) : a \in BOOLEAN, t \in DescriptionTitles}
InfoInputs ==
    {[oas |-> [info |-> [title |-> t, version |-> "1.0.0", description |-> d]],
      description |-> c] :
        t \in {"A", "B"}, d \in InfoDescriptions, c \in DescriptionConfigs}
InfoLists == UNION {[1..n -> InfoInputs] : n \in 0..MaxCallInputs}

TagPets1 == [name |-> "pets", description |-> Some("first")]
TagPets2 == [name |-> "pets", description |-> Some("second")]
TagUsers == [name |-> "users", description |-> None]
DeclaredTags ==
    {<<>>, <<TagPets1>>, <<TagPets2, TagUsers>>, <<TagUsers, TagPets1>>, <<TagPets1, TagPets2>>}
TagSelections ==
    {None}
    \cup {Some([include_tags |-> None, exclude_tags |-> e]) :
            e \in {None, Some(<<>>), Some(<<"pets">>), Some(<<"users">>)}}
TagInputs ==
    {[oas |-> [tags |-> t], operation_selection |-> s] : t \in DeclaredTags, s \in TagSelections}
TagInputLists == UNION {[1..n -> TagInputs] : n \in 0..MaxCallInputs}

CallMergeInfos ==
    /\ pc = "idle"
    /\ call = None
    /\ \E ins \in InfoLists :
          call' = Some([fn |-> "merge_infos", args |-> <<ins>>, ret |-> MergeInfos(ins)])
    /\ UNCHANGED <<pc, inputs, input_index, dispute, oas, reference_modification, kind_index,
                   entry_index, seen_operation_ids, result_paths, result_components, result,
                   preserve_order>>

CallMergeTags ==
    /\ pc = "idle"
    /\ call = None
    /\ \E ins \in TagInputLists :
          call' = Some([fn |-> "merge_tags", args |-> <<ins>>, ret |-> OutputTags(ins)])
    /\ UNCHANGED <<pc, inputs, input_index, dispute, oas, reference_modification, kind_index,
                   entry_index, seen_operation_ids, result_paths, result_components, result,
                   preserve_order>>

(* merge: the parts of the output other than paths and components (mod.rs 27-71). *)
OpenapiVersionLast(ins, openapi_version) ==
    IF IsSome(openapi_version) THEN openapi_version[1] ELSE ins[Len(ins)].oas.openapi

OpenapiVersion(ins, openapi_version) ==
    IF IsSome(openapi_version) THEN openapi_version[1] ELSE ins[1].oas.openapi

MergeServersFirstInput(ins) == IF Len(ins) = 0 THEN <<>> ELSE Head(ins).oas.servers

RECURSIVE MergeServers(_)
MergeServers(ins) ==
    IF Len(ins) = 0 THEN <<>>
    ELSE IF Len(Head(ins).oas.servers) # 0 THEN Head(ins).oas.servers
    ELSE MergeServers(Tail(ins))

RECURSIVE MergeExternalDocs(_)
MergeExternalDocs(ins) ==
    IF Len(ins) = 0 THEN None
    ELSE IF IsSome(Head(ins).oas.external_docs) THEN Head(ins).oas.external_docs
    ELSE MergeExternalDocs(Tail(ins))

RECURSIVE MergeSecurity(_)
MergeSecurity(ins) ==
    IF Len(ins) = 0 THEN None
    ELSE IF IsSome(Head(ins).oas.security) THEN Head(ins).oas.security
    ELSE MergeSecurity(Tail(ins))

NoExtensions == [key \in {} |-> <<>>]

(* serde_json::to_value(oas): the fixed fields and, flattened, the extension fields. *)
FixedFields ==
    {"openapi", "info", "servers", "paths", "components", "security", "tags", "externalDocs"}
ToObject(doc) ==
    [key \in FixedFields \cup DOMAIN doc.extensions |->
        IF key \in DOMAIN doc.extensions THEN doc.extensions[key] ELSE "field"]

ExtractExtensions(doc) ==
    LET obj == ToObject(doc)
    IN [key \in {k \in DOMAIN obj : StartsWith(k, "x-")} |-> obj[key]]

RECURSIVE InsertAbsent(_, _)
InsertAbsent(extensions, ins) ==
    IF Len(ins) = 0 THEN extensions
    ELSE LET input_extensions == ExtractExtensions(Head(ins).oas)
         IN InsertAbsent([key \in DOMAIN extensions \cup DOMAIN input_extensions |->
                             IF key \in DOMAIN extensions THEN extensions[key]
                             ELSE input_extensions[key]],
                         Tail(ins))

(* merge_extensions builds the local map and returns: the output is not written.  *)
MergeExtensions(output, ins) ==
    LET extensions == InsertAbsent(ExtractExtensions(output), ins)
    IN output

(* merge on inputs whose documents hold no path and no component.                 *)
MergeOutput(ins, openapi_version) ==
    IF Len(ins) = 0 THEN Err("NoInputs", <<>>)
    ELSE Ok(MergeExtensions([openapi |-> OpenapiVersion(ins, openapi_version),
                             info |-> MergeInfos(ins),
                             servers |-> MergeServers(ins),
                             paths |-> EmptyMap,
                             components |-> Some(EmptyComponents),
                             security |-> MergeSecurity(ins),
                             tags |-> OutputTags(ins),
                             external_docs |-> MergeExternalDocs(ins),
                             extensions |-> NoExtensions],
                            ins))

TopDoc(openapi, servers, security, external_docs, extensions) ==
    [openapi |-> openapi,
     info |-> [title |-> "A", version |-> "1.0.0", description |-> None],
     servers |-> servers,
     paths |-> EmptyMap,
     components |-> None,
     security |-> security,
     tags |-> <<>>,
     external_docs |-> external_docs,
     extensions |-> extensions]

ServerLists == {<<>>, <<"https://a">>, <<"https://b", "https://c">>}
SecurityLists == {None, Some(<<>>), Some(<<"apiKey">>)}
ExternalDocs == {None, Some("docs-a"), Some("docs-b")}
ExtensionMaps == {NoExtensions, [key \in {"x-owner"} |-> "a"],
                  [key \in {"x-owner", "x-team"} |-> "b"]}
TopDocs ==
    {TopDoc("3.0.0", s, c, d, NoExtensions) :
        s \in ServerLists, c \in SecurityLists, d \in ExternalDocs}
    \cup {TopDoc(v, <<>>, None, None, x) : v \in {"3.0.0", "3.0.3"}, x \in ExtensionMaps}
TopInputs ==
    {[oas |-> doc, path_modification |-> None, operation_selection |-> None,
      description |-> None, dispute |-> None, dispute_prefix |-> None] : doc \in TopDocs}
TopLists == UNION {[1..n -> TopInputs] : n \in 0..MaxCallInputs}
VersionOverrides == {None, Some("3.1.0")}

CallMerge ==
    /\ pc = "idle"
    /\ call = None
    /\ \E ins \in TopLists, openapi_version \in VersionOverrides :
          call' = Some([fn |-> "merge", args |-> <<ins, openapi_version>>,
                        ret |-> MergeOutput(ins, openapi_version)])
    /\ UNCHANGED <<pc, inputs, input_index, dispute, oas, reference_modification, kind_index,
                   entry_index, seen_operation_ids, result_paths, result_components, result,
                   preserve_order>>

(* merge_infos and merge_tags keep no state between calls: a behaviour makes one   *)
(* call, and every call on the bounded inputs is one behaviour.                    *)
NextInfo ==
    \/ CallMergeInfos
    \/ CallMergeTags
    \/ CallMerge

SpecInfo == Init /\ [][NextInfo]_vars

MergeCallFn ==
    /\ pc = "idle"
    /\ \E ins \in FnLists : inputs' = ins
    /\ result' = None
    /\ pc' = "input"
    /\ input_index' = 1
    /\ seen_operation_ids' = {}
    /\ result_paths' = EmptyMap
    /\ result_components' = EmptyComponents
    /\ call' = None
    /\ UNCHANGED <<dispute, oas, reference_modification, kind_index, entry_index, preserve_order>>

NextFn ==
    \/ CallApplyDispute
    \/ CallApplyPathModification
    \/ CallRunOperationSelection
    \/ CallModify
    \/ MergeCallFn
    \/ BeginInput
    \/ ProcessComponent
    \/ TakeSecuritySchemes
    \/ ProcessPath
    \/ WalkReferences
    \/ Assemble

SpecFn == Init /\ [][NextFn]_vars

Called(fn) == IsSome(call) /\ call[1].fn = fn

----------------------------------------------------------------------------
(* C8: apply_dispute returns the name unchanged when no dispute is configured, *)
(* and when the status is Undisputed and always_apply is false or unset; it    *)
(* returns prefix + name or name + suffix when the status is Disputed,         *)
(* whatever always_apply is, and when the status is Undisputed and             *)
(* always_apply is true.                                                       *)
C8_ApplyDisputeTable ==
    Called("apply_dispute") =>
        LET d == call[1].args[1]
            name == call[1].args[2]
            status == call[1].args[3]
            ret == call[1].ret
            renamed == IF d[1].variant = "Prefix" THEN d[1].prefix \o name
                       ELSE name \o d[1].suffix
        IN /\ d = None => ret = name
           /\ (d # None /\ status = "Undisputed"
                 /\ d[1].always_apply \in {None, Some(FALSE)}) => ret = name
           /\ (d # None /\ status = "Disputed") => ret = renamed
           /\ (d # None /\ status = "Undisputed"
                 /\ d[1].always_apply = Some(TRUE)) => ret = renamed

(* A Disputed name under the prefix svc with always_apply false came back prefixed *)
C8_Witness ==
    /\ Called("apply_dispute")
    /\ call[1].args = <<PrefixDispute("svc", Some(FALSE)), "Pet", "Disputed">>
    /\ call[1].ret = "svcPet"

----------------------------------------------------------------------------
(* The tags of a list, and of the two lists of a selection (none when absent) *)
TagSet(tags) == {tags[i] : i \in 1..Len(tags)}
IncludeSet(operation_selection) ==
    IF operation_selection # None /\ operation_selection[1].include_tags # None
    THEN TagSet(operation_selection[1].include_tags[1]) ELSE {}
ExcludeSet(operation_selection) ==
    IF operation_selection # None /\ operation_selection[1].exclude_tags # None
    THEN TagSet(operation_selection[1].exclude_tags[1]) ELSE {}
Survives(operation, operation_selection) ==
    /\ \/ IncludeSet(operation_selection) = {}
       \/ TagSet(operation.tags) \cap IncludeSet(operation_selection) # {}
    /\ \/ ExcludeSet(operation_selection) = {}
       \/ TagSet(operation.tags) \cap ExcludeSet(operation_selection) = {}

(* C9: after operation selection an operation of an inline path item survives *)
(* if and only if (include_tags is empty or absent, or its tags intersect     *)
(* include_tags) and (exclude_tags is empty or absent, or its tags do not     *)
(* intersect exclude_tags); an operation with no tags is removed whenever     *)
(* include_tags is non-empty; an operation carrying a tag that is in both     *)
(* lists is absent from the merged output; path items that are a $ref are     *)
(* left untouched.                                                            *)
C9_OperationSelection ==
    /\ Called("run_operation_selection") =>
          LET doc == call[1].args[1]
              sel == call[1].args[2]
              ret == call[1].ret
          IN /\ ret.paths.keys = doc.paths.keys
             /\ ret.components = doc.components
             /\ \A p \in MapKeySet(doc.paths) :
                   LET before == doc.paths.vals[p]
                       after == ret.paths.vals[p]
                   IN IF before.is_ref THEN after = before
                      ELSE /\ ~after.is_ref
                           /\ after.parameters = before.parameters
                           /\ \A m \in Methods :
                                 IF IsSome(before.ops[m])
                                 THEN /\ IsSome(after.ops[m])
                                           <=> Survives(before.ops[m][1], sel)
                                      /\ IsSome(after.ops[m])
                                           => after.ops[m] = before.ops[m]
                                      /\ (before.ops[m][1].tags = <<>>
                                            /\ IncludeSet(sel) # {})
                                           => IsNone(after.ops[m])
                                      /\ (TagSet(before.ops[m][1].tags)
                                            \cap IncludeSet(sel) \cap ExcludeSet(sel) # {})
                                           => IsNone(after.ops[m])
                                 ELSE IsNone(after.ops[m])
    /\ (ReturnedOk /\ Len(inputs) = 1) =>
          LET doc == inputs[1].oas
              sel == inputs[1].operation_selection
          IN \A p \in MapKeySet(doc.paths) : \A m \in Methods :
                LET new_path == ApplyPathModification(p, inputs[1].path_modification)
                IN (/\ ~doc.paths.vals[p].is_ref
                    /\ IsSome(doc.paths.vals[p].ops[m])
                    /\ TagSet(doc.paths.vals[p].ops[m][1].tags)
                          \cap IncludeSet(sel) \cap ExcludeSet(sel) # {})
                   => ~(/\ MapHas(Output.paths, new_path)
                        /\ ~Output.paths.vals[new_path].is_ref
                        /\ IsSome(Output.paths.vals[new_path].ops[m]))

(* Selection with public included and internal excluded kept the public get, *)
(* removed the put tagged public and internal, and left the $ref path item   *)
C9_Witness ==
    /\ Called("run_operation_selection")
    /\ call[1].args[2] = Some([include_tags |-> Some(<<"public">>),
                               exclude_tags |-> Some(<<"internal">>)])
    /\ call[1].args[1].paths.vals["/t"].ops["get"][1].tags = <<"public">>
    /\ call[1].args[1].paths.vals["/t"].ops["put"][1].tags = <<"public", "internal">>
    /\ IsSome(call[1].ret.paths.vals["/t"].ops["get"])
    /\ IsNone(call[1].ret.paths.vals["/t"].ops["put"])
    /\ call[1].ret.paths.vals["/r"].is_ref

----------------------------------------------------------------------------
(* What is left of path after each of its prefixes *)
Rests(path) == {SubSeq(path, n + 1, Len(path)) : n \in 0..Len(path)}

(* C10: apply_path_modification first removes strip_start from the front of *)
(* the path if and only if the path begins with the literal strip_start,    *)
(* then puts prepend in front of the result; each step leaves the path      *)
(* unchanged when its field is absent or empty, and with no path            *)
(* modification the path is returned unchanged.                             *)
C10_ModifyPath ==
    Called("apply_path_modification") =>
        LET path == call[1].args[1]
            pm == call[1].args[2]
            ret == call[1].ret
        IN IF pm = None THEN ret = path
           ELSE LET strip == IF pm[1].strip_start = None THEN "" ELSE pm[1].strip_start[1]
                    prepend == IF pm[1].prepend = None THEN "" ELSE pm[1].prepend[1]
                    begins == \E r \in Rests(path) : path = strip \o r
                    stripped == IF begins
                                THEN CHOOSE r \in Rests(path) : path = strip \o r
                                ELSE path
                IN /\ ret = prepend \o stripped
                   /\ (strip = "" /\ prepend = "") => ret = path
                   /\ strip = "" => ret = prepend \o path
                   /\ (prepend = "" /\ ~begins) => ret = path

(* /api was stripped from /api/users and /v2 put in front of what was left *)
C10_Witness ==
    /\ Called("apply_path_modification")
    /\ call[1].args = <<"/api/users",
                        Some([strip_start |-> Some("/api"), prepend |-> Some("/v2")])>>
    /\ call[1].ret = "/v2/users"

----------------------------------------------------------------------------
(* The components of kind of the i-th input *)
InputComponents(i, kind) ==
    IF IsSome(inputs[i].oas.components) THEN inputs[i].oas.components[1][kind] ELSE EmptyMap
AlwaysApplies(i) ==
    LET d == GetDispute(inputs[i])
    IN IsSome(d) /\ d[1].always_apply = Some(TRUE)
(* Every name of kind that both inputs define holds structurally equal values *)
SharedEqual(kind) ==
    \A n \in MapKeySet(InputComponents(1, kind)) \cap MapKeySet(InputComponents(2, kind)) :
        StructurallyEqual(InputComponents(1, kind).vals[n], InputComponents(2, kind).vals[n])

(* C11: when the modified name of an input component is absent from the       *)
(* accumulator or holds a structurally equal value, the component ends at the *)
(* modified name and no renaming is recorded for it; so when two inputs       *)
(* define a name with identical content and no always-apply dispute, the      *)
(* output has one entry under that name, no numbered or disputed copy, and    *)
(* the references of both inputs read as they did.                            *)
C11_EqualKeepsName ==
    /\ [][(/\ pc = "components"
           /\ \/ ~MapHas(CurResults, CurModified)
              \/ StructurallyEqual(MapGet(CurResults, CurModified), CurComponent))
          => LET placed == result_components'[CurPrefix]
             IN /\ result' = None
                /\ placed.keys = IF MapHas(CurResults, CurModified) THEN CurResults.keys
                                 ELSE Append(CurResults.keys, CurModified)
                /\ placed.vals[CurModified] = CurComponent
                /\ \A n \in MapKeySet(CurResults) \ {CurModified} :
                      placed.vals[n] = CurResults.vals[n]
                /\ reference_modification'
                      = IF CurModified = CurKey THEN reference_modification
                        ELSE HashInsert(reference_modification,
                                        ComponentRef(CurPrefix, CurKey),
                                        ComponentRef(CurPrefix, CurModified))
                /\ CurModified = CurKey
                      => ComponentRef(CurPrefix, CurKey) \notin DOMAIN reference_modification'
         ]_vars
    /\ [](\A k \in 1..Len(Kinds) :
            (/\ ReturnedOk
             /\ Len(inputs) = 2
             /\ ~AlwaysApplies(1) /\ ~AlwaysApplies(2)
             /\ SharedEqual(Kinds[k]))
            => LET kind == Kinds[k]
                   a == InputComponents(1, kind)
                   b == InputComponents(2, kind)
                   out == Output.components[1][kind]
               IN /\ MapKeySet(out) = MapKeySet(a) \cup MapKeySet(b)
                  /\ \A n \in MapKeySet(out) :
                        StructurallyEqual(out.vals[n],
                                          IF n \in MapKeySet(b) THEN b.vals[n]
                                          ELSE a.vals[n]))

(* Pet, defined by the two inputs with the same members in two orders, is in *)
(* the output once, with Owner and Keeper still referring to it              *)
C11_Witness ==
    /\ ReturnedOk
    /\ Len(inputs) = 2
    /\ InputComponents(1, "schemas").vals = ("Pet" :> SchemaAB) @@ ("Owner" :> SchemaR)
    /\ InputComponents(2, "schemas").vals = ("Keeper" :> SchemaR) @@ ("Pet" :> SchemaBA)
    /\ MapKeySet(Output.components[1].schemas) = {"Pet", "Owner", "Keeper"}
    /\ Output.components[1].schemas.vals["Owner"].refs = <<PetRef>>
    /\ Output.components[1].schemas.vals["Keeper"].refs = <<PetRef>>

----------------------------------------------------------------------------
(* The inputs, by index, whose securitySchemes is not empty *)
WithSecuritySchemes ==
    {i \in 1..Len(inputs) : ~MapIsEmpty(InputComponents(i, "securitySchemes"))}
FirstWithSecuritySchemes ==
    CHOOSE i \in WithSecuritySchemes : \A j \in WithSecuritySchemes : i <= j

(* C12: the securitySchemes of the output is, entry for entry and under the  *)
(* same names, the securitySchemes of the first input that has any; later    *)
(* inputs contribute nothing; it is empty when no input has any.             *)
C12_SecuritySchemesFirst ==
    ReturnedOk =>
        LET out == Output.components[1].securitySchemes
        IN IF WithSecuritySchemes = {} THEN MapIsEmpty(out)
           ELSE LET first == InputComponents(FirstWithSecuritySchemes, "securitySchemes")
                IN /\ MapKeySet(out) = MapKeySet(first)
                   /\ MapLen(out) = MapLen(first)
                   /\ \A n \in MapKeySet(first) :
                         StructurallyEqual(out.vals[n], first.vals[n])

(* Two inputs with different security schemes were merged: the first one's are out *)
C12_Witness ==
    /\ ReturnedOk
    /\ Len(inputs) = 2
    /\ MapKeySet(InputComponents(1, "securitySchemes")) = {"oauth", "key"}
    /\ InputComponents(2, "securitySchemes").vals = ("key" :> SchemaA)
    /\ MapKeySet(Output.components[1].securitySchemes) = {"oauth", "key"}
    /\ Output.components[1].securitySchemes.vals["key"] = SchemaB

----------------------------------------------------------------------------
----------------------------------------------------------------------------
ErrorTypes == {"NoInputs", "DuplicatePaths", "ComponentDefinitionConflict",
               "OperationIdConflict"}

(* C14: every merge call ends by returning a document or an error of one of *)
(* the four kinds and in no other way; an error returns no document.        *)
C14_DocumentOrError ==
    pc = "done" =>
        /\ IsSome(result)
        /\ \/ result[1].kind = "Ok"
           \/ result[1].kind = "Err" /\ result[1].error_type \in ErrorTypes
        /\ result[1].kind = "Err" => "output" \notin DOMAIN result[1]

----------------------------------------------------------------------------
(* The i-th input has no path modification, no operation selection, no dispute *)
NoModification(i) ==
    /\ inputs[i].path_modification = None
    /\ inputs[i].operation_selection = None
    /\ GetDispute(inputs[i]) = None

(* The paths of out with their path items, and its components of every kind, *)
(* are exactly those of doc                                                  *)
SamePathsAndComponents(out, doc) ==
    /\ MapKeySet(out.paths) = MapKeySet(doc.paths)
    /\ \A p \in MapKeySet(doc.paths) : out.paths.vals[p] = doc.paths.vals[p]
    /\ \A kind \in AllKinds :
          LET a == IF IsSome(doc.components) THEN doc.components[1][kind] ELSE EmptyMap
              b == IF IsSome(out.components) THEN out.components[1][kind] ELSE EmptyMap
          IN /\ MapKeySet(a) = MapKeySet(b)
             /\ \A n \in MapKeySet(a) : StructurallyEqual(a.vals[n], b.vals[n])

(* Every path item of doc is a $ref or has an operation; its operationIds are distinct *)
NothingToDropOrRename(doc) ==
    /\ \A p \in MapKeySet(doc.paths) :
          doc.paths.vals[p].is_ref \/ \E m \in Methods : IsSome(doc.paths.vals[p].ops[m])
    /\ \A a \in OperationsWithId(doc) : \A b \in OperationsWithId(doc) :
          a # b => OperationIdAt(doc, a) # OperationIdAt(doc, b)

(* C15 as stated: merging a single input with no path modification, no operation *)
(* selection and no dispute returns a document whose paths, with their path      *)
(* items and operationIds, and whose components of every kind are exactly those  *)
(* of the input.                                                                 *)
C15_SingleInputIdentity ==
    (Returned /\ Len(inputs) = 1 /\ NoModification(1))
        => ReturnedOk /\ SamePathsAndComponents(Output, inputs[1].oas)

(* C15 amended: the same, for an input in which every path item has at least one *)
(* operation or is a $ref and in which the operationIds are pairwise distinct.   *)
C15_SingleInputIdentityAmended ==
    (Returned /\ Len(inputs) = 1 /\ NoModification(1)
        /\ NothingToDropOrRename(inputs[1].oas))
        => ReturnedOk /\ SamePathsAndComponents(Output, inputs[1].oas)

(* The single input with /users and the $ref path item /alias came back as it was *)
C15_Witness ==
    /\ ReturnedOk
    /\ Len(inputs) = 1
    /\ NoModification(1)
    /\ MapKeySet(inputs[1].oas.paths) = {"/users", "/alias"}
    /\ SamePathsAndComponents(Output, inputs[1].oas)

----------------------------------------------------------------------------
(* The document that merge of two inputs with no modification returned is *)
(* merged again, as the only input and with no modification               *)
MergeAgain ==
    /\ pc = "done"
    /\ ReturnedOk
    /\ Len(inputs) = 2
    /\ NoModification(1) /\ NoModification(2)
    /\ call = None
    /\ call' = Some([fn |-> "merge", args |-> inputs, ret |-> result[1]])
    /\ inputs' = <<MergeInputOf(Output, None, None, None, None)>>
    /\ result' = None
    /\ pc' = "input"
    /\ input_index' = 1
    /\ seen_operation_ids' = {}
    /\ result_paths' = EmptyMap
    /\ result_components' = EmptyComponents
    /\ UNCHANGED <<dispute, oas, reference_modification, kind_index, entry_index,
                   preserve_order>>

NextAgain ==
    \/ MergeCall
    \/ BeginInput
    \/ ProcessComponent
    \/ TakeSecuritySchemes
    \/ ProcessPath
    \/ WalkReferences
    \/ Assemble
    \/ MergeAgain

SpecAgain == Init /\ [][NextAgain]_vars

(* C16: for two inputs a and b with no modification for which merge([a, b])   *)
(* succeeds, merging the one-element list that holds the result succeeds and  *)
(* returns a document structurally equal to merge([a, b]).                    *)
C16_Idempotent ==
    (pc = "done" /\ Called("merge"))
        => /\ ReturnedOk
           /\ SamePathsAndComponents(Output, call[1].ret.output)
           /\ SamePathsAndComponents(call[1].ret.output, Output)

(* The merge of two inputs that needed renamings (Pet1, list1) was merged again *)
C16_Witness ==
    /\ pc = "done"
    /\ Called("merge")
    /\ ReturnedOk
    /\ \/ "Pet1" \in MapKeySet(Output.components[1].schemas)
          /\ "Pet1" \notin MapKeySet(InputComponents(1, "schemas"))
       \/ "list1" \in OperationIds(Output)

----------------------------------------------------------------------------
(* After merge of two inputs has ended, the two inputs are merged in the other order *)
SwapLists ==
    {<<a, b>> : a \in BulkOperationInputs, b \in CollidingInputs}
    \cup {<<a, b>> : a \in CoreInputs, b \in CoreInputs}

MergeCallSwap ==
    /\ pc = "idle"
    /\ \E ins \in SwapLists : inputs' = ins
    /\ result' = None
    /\ pc' = "input"
    /\ input_index' = 1
    /\ seen_operation_ids' = {}
    /\ result_paths' = EmptyMap
    /\ result_components' = EmptyComponents
    /\ UNCHANGED <<dispute, oas, reference_modification, kind_index, entry_index, call,
                   preserve_order>>

MergeSwapped ==
    /\ pc = "done"
    /\ IsSome(result)
    /\ Len(inputs) = 2
    /\ call = None
    /\ call' = Some([fn |-> "merge", args |-> inputs, ret |-> result[1]])
    /\ inputs' = <<inputs[2], inputs[1]>>
    /\ result' = None
    /\ pc' = "input"
    /\ input_index' = 1
    /\ seen_operation_ids' = {}
    /\ result_paths' = EmptyMap
    /\ result_components' = EmptyComponents
    /\ UNCHANGED <<dispute, oas, reference_modification, kind_index, entry_index,
                   preserve_order>>

NextSwap ==
    \/ MergeCallSwap
    \/ BeginInput
    \/ ProcessComponent
    \/ TakeSecuritySchemes
    \/ ProcessPath
    \/ WalkReferences
    \/ Assemble
    \/ MergeSwapped

SpecSwap == Init /\ [][NextSwap]_vars

(* The operations of a document, each named by its path and its method *)
Operations(doc) ==
    {<<p, m>> \in MapKeySet(doc.paths) \X Methods :
        ~doc.paths.vals[p].is_ref /\ IsSome(doc.paths.vals[p].ops[m])}

(* C17: for two inputs a and b, merge([a, b]) and merge([b, a]) either both    *)
(* fail or both succeed with the same set of operations, an operation being    *)
(* named by its modified path and its method.                                  *)
C17_OrderKeepsOperations ==
    (pc = "done" /\ Called("merge"))
        => /\ call[1].ret.kind = "Ok" <=> result[1].kind = "Ok"
           /\ (call[1].ret.kind = "Ok" /\ result[1].kind = "Ok")
                 => Operations(call[1].ret.output) = Operations(Output)

----------------------------------------------------------------------------
(* The paths of the i-th input that are merged, in the order of the input *)
KeptPaths(i) ==
    DropPathItemsWithNoOperations(
        RunOperationSelection(inputs[i].oas, inputs[i].operation_selection)).paths.keys

(* C18: the entries of each component kind and of paths are in the order      *)
(* (input index ascending, then insertion order inside the input): the        *)
(* components and the paths of an input are handled in the order in which the *)
(* input holds them, a new entry goes to the end, and a component that is     *)
(* deduplicated against an equal earlier entry leaves the order as it is.     *)
C18_OutputOrder ==
    /\ [][(pc = "components" /\ result' = None)
             => /\ CurKey = InputComponents(input_index, CurPrefix).keys[entry_index]
                /\ \/ result_components'[CurPrefix].keys = CurResults.keys
                   \/ /\ Len(result_components'[CurPrefix].keys) = Len(CurResults.keys) + 1
                      /\ SubSeq(result_components'[CurPrefix].keys, 1, Len(CurResults.keys))
                            = CurResults.keys
                /\ (MapHas(CurResults, CurModified)
                      /\ StructurallyEqual(MapGet(CurResults, CurModified), CurComponent))
                      => result_components'[CurPrefix].keys = CurResults.keys
          ]_vars
    /\ [][(pc = "paths" /\ result' = None)
             => /\ CurPath = KeptPaths(input_index)[entry_index]
                /\ result_paths'.keys = Append(result_paths.keys, CurNewPath)
          ]_vars

(* ---------------------------------------------------------------------------- *)
(* Info and tags of the output                                                    *)
(* ---------------------------------------------------------------------------- *)

EndsInWhitespace(s) == Len(s) > 0 /\ SubSeq(s, Len(s), Len(s)) \in Whitespace
OnlyWhitespace(s) == \A k \in 1..Len(s) : SubSeq(s, k, k) \in Whitespace
RightTrimmed(s) ==
    CHOOSE t \in {SubSeq(s, 1, n) : n \in 0..Len(s)} :
        /\ ~EndsInWhitespace(t)
        /\ OnlyWhitespace(SubSeq(s, Len(t) + 1, Len(s)))

Appends(input) ==
    /\ IsSome(input.description)
    /\ input.description[1].append
    /\ IsSome(input.oas.info.description)

Hashes(level) == CHOOSE h \in {"", "#", "##", "###"} : Len(h) = level

HeadingText(input) ==
    IF IsSome(input.description[1].title)
    THEN LET title == input.description[1].title[1]
             level == IF IsSome(title.heading_level) THEN title.heading_level[1] ELSE 1
         IN Hashes(level) \o " " \o title.value \o "\n\n"
    ELSE ""

PieceOf(input) == HeadingText(input) \o RightTrimmed(input.oas.info.description[1])

ExpectedDescription(ins) ==
    LET appending == SelectSeq([k \in 1..Len(ins) |-> ins[k]], Appends)
    IN IF Len(appending) = 0 THEN ins[1].oas.info.description
       ELSE IF Len(appending) = 1 THEN Some(PieceOf(appending[1]))
       ELSE Some(PieceOf(appending[1]) \o "\n\n" \o PieceOf(appending[2]))

(* C19: the output info is the first input's info with its description replaced  *)
(* by the "\n\n"-join, in input order, of one piece per input whose               *)
(* description.append is true and whose info.description is present; the piece is *)
(* the right-trimmed description, preceded by the heading exactly when            *)
(* description.title is set (so a description appended without a title is still   *)
(* included); with no piece the first input's description is kept.                *)
C19_InfoDescription ==
    (Called("merge_infos") /\ Len(call[1].args[1]) > 0)
        => LET ins == call[1].args[1]
           IN call[1].ret = [ins[1].oas.info EXCEPT !.description = ExpectedDescription(ins)]

(* The part of C19 that does not depend on untitled appended descriptions.        *)
C19_TitledDescription ==
    (/\ Called("merge_infos")
     /\ Len(call[1].args[1]) > 0
     /\ \A k \in 1..Len(call[1].args[1]) :
            Appends(call[1].args[1][k]) => IsSome(call[1].args[1][k].description[1].title))
        => LET ins == call[1].args[1]
           IN call[1].ret = [ins[1].oas.info EXCEPT !.description = ExpectedDescription(ins)]

Excludes(input, name) ==
    /\ IsSome(input.operation_selection)
    /\ IsSome(input.operation_selection[1].exclude_tags)
    /\ \E k \in 1..Len(input.operation_selection[1].exclude_tags[1]) :
          input.operation_selection[1].exclude_tags[1][k] = name

(* The positions <<i, j>> of the declared tags that their own input does not exclude. *)
Declared(ins) ==
    UNION {{<<i, j>> : j \in {n \in 1..Len(ins[i].oas.tags) :
                                  ~Excludes(ins[i], ins[i].oas.tags[n].name)}} :
              i \in 1..Len(ins)}

Before(p, q) == p[1] < q[1] \/ (p[1] = q[1] /\ p[2] < q[2])

FirstDeclared(ins, name) ==
    CHOOSE p \in Declared(ins) :
        /\ ins[p[1]].oas.tags[p[2]].name = name
        /\ \A q \in Declared(ins) :
              (ins[q[1]].oas.tags[q[2]].name = name /\ q # p) => Before(p, q)

(* C20: the output tags are the inputs' tags in input order, without the tags     *)
(* whose name is in their own input's operationSelection.excludeTags and without  *)
(* names already emitted: names are pairwise distinct, the first non-excluded     *)
(* occurrence of a name supplies the record, and a tag excluded by one input      *)
(* still appears when another input declares it without excluding it.             *)
C20_TagsMerged ==
    Called("merge_tags")
        => LET ins == call[1].args[1]
               out == call[1].ret
           IN /\ \A k, l \in 1..Len(out) : out[k].name = out[l].name => k = l
              /\ {out[k].name : k \in 1..Len(out)}
                    = {ins[p[1]].oas.tags[p[2]].name : p \in Declared(ins)}
              /\ \A k \in 1..Len(out) :
                    LET p == FirstDeclared(ins, out[k].name)
                    IN out[k] = ins[p[1]].oas.tags[p[2]]
              /\ \A k, l \in 1..Len(out) :
                    k < l => Before(FirstDeclared(ins, out[k].name),
                                    FirstDeclared(ins, out[l].name))

C20_Witness ==
    /\ Called("merge_tags")
    /\ Len(call[1].args[1]) = 2
    /\ call[1].args[1][1].oas.tags = <<TagPets1>>
    /\ Excludes(call[1].args[1][1], "pets")
    /\ call[1].args[1][2].oas.tags = <<TagPets2, TagUsers>>
    /\ ~Excludes(call[1].args[1][2], "pets")
    /\ call[1].ret = <<TagPets2, TagUsers>>

(* ---------------------------------------------------------------------------- *)
(* The other top-level fields of the output                                       *)
(* ---------------------------------------------------------------------------- *)

MergeSucceeded == Called("merge") /\ call[1].ret.kind = "Ok"

(* field is taken from the first input that satisfies has, or is absent when none does *)
FirstWith(ins, has(_)) ==
    IF \E i \in 1..Len(ins) : has(ins[i])
    THEN Some(CHOOSE i \in 1..Len(ins) : has(ins[i]) /\ \A j \in 1..(i - 1) : ~has(ins[j]))
    ELSE None

HasServers(input) == Len(input.oas.servers) > 0
HasSecurity(input) == input.oas.security # None
HasExternalDocs(input) == input.oas.external_docs # None

(* C21: the output servers are those of the first input with a non-empty list    *)
(* (empty when there is none), the output security is that of the first input     *)
(* that defines it, even as an empty list, and the output externalDocs is that of *)
(* the first input that has one; later inputs never override them.                *)
C21_FirstWins ==
    MergeSucceeded
        => LET ins == call[1].args[1]
               out == call[1].ret.output
               s == FirstWith(ins, HasServers)
               c == FirstWith(ins, HasSecurity)
               d == FirstWith(ins, HasExternalDocs)
           IN /\ out.servers = IF IsSome(s) THEN ins[s[1]].oas.servers ELSE <<>>
              /\ out.security = IF IsSome(c) THEN ins[c[1]].oas.security ELSE None
              /\ out.external_docs = IF IsSome(d) THEN ins[d[1]].oas.external_docs ELSE None

(* A first input with no server and an empty security list, then one with both.   *)
C21_Witness ==
    /\ MergeSucceeded
    /\ Len(call[1].args[1]) = 2
    /\ call[1].args[1][1].oas.servers = <<>>
    /\ call[1].args[1][1].oas.security = Some(<<>>)
    /\ call[1].args[1][1].oas.external_docs = Some("docs-a")
    /\ call[1].args[1][2].oas.servers = <<"https://a">>
    /\ call[1].args[1][2].oas.security = Some(<<"apiKey">>)
    /\ call[1].args[1][2].oas.external_docs = Some("docs-b")
    /\ call[1].ret.output.servers = <<"https://a">>
    /\ call[1].ret.output.security = Some(<<>>)
    /\ call[1].ret.output.external_docs = Some("docs-a")

(* C22: the top-level x-* fields of the output are the union of those of all      *)
(* inputs: every extension key of every input is in the output, with the value of *)
(* the first input that has the key.                                              *)
C22_ExtensionsUnion ==
    MergeSucceeded
        => LET ins == call[1].args[1]
               out == call[1].ret.output
           IN \A i \in 1..Len(ins) : \A key \in DOMAIN ins[i].oas.extensions :
                 /\ key \in DOMAIN out.extensions
                 /\ LET first == CHOOSE j \in 1..Len(ins) :
                                    /\ key \in DOMAIN ins[j].oas.extensions
                                    /\ \A k \in 1..(j - 1) : key \notin DOMAIN ins[k].oas.extensions
                    IN out.extensions[key] = ins[first].oas.extensions[key]

(* C23: the output openapi version is the override when one is passed, otherwise  *)
(* the version of the first input, whatever later inputs declare.                 *)
C23_Version ==
    MergeSucceeded
        => LET ins == call[1].args[1]
               openapi_version == call[1].args[2]
           IN call[1].ret.output.openapi
                 = IF openapi_version # None THEN openapi_version[1] ELSE ins[1].oas.openapi

C23_Witness ==
    /\ MergeSucceeded
    /\ call[1].args[2] = None
    /\ Len(call[1].args[1]) = 2
    /\ call[1].args[1][1].oas.openapi = "3.0.0"
    /\ call[1].args[1][2].oas.openapi = "3.0.3"
    /\ call[1].ret.output.openapi = "3.0.0"

(* ---------------------------------------------------------------------------- *)
(* The legacy disputePrefix                                                       *)
(* ---------------------------------------------------------------------------- *)

Legacy == pc \in {"components", "paths"} /\ IsSome(inputs[input_index].dispute_prefix)
LegacyPrefix == inputs[input_index].dispute_prefix[1]
Lowered == PrefixDispute(LegacyPrefix, Some(FALSE))

(* C24: an input that sets the legacy disputePrefix P is merged as if its dispute *)
(* were {prefix: P, alwaysApply: false}, also when it sets the dispute field as   *)
(* well: every component step and every path step does what it does under that    *)
(* dispute, a component keeps its name while undisputed and gets P in front when  *)
(* disputed.                                                                      *)
C24_LegacyPrefix ==
    /\ []((Legacy /\ pc = "components")
            => ProcessOneComponent(CurResults, CurKey, CurComponent, dispute,
                                   reference_modification, CurPrefix)
               = ProcessOneComponent(CurResults, CurKey, CurComponent, Lowered,
                                     reference_modification, CurPrefix))
    /\ []((Legacy /\ pc = "paths")
            => EnsureUniqueOperationIds(CurPathItem, seen_operation_ids, dispute)
               = EnsureUniqueOperationIds(CurPathItem, seen_operation_ids, Lowered))
    /\ [][(Legacy /\ pc = "components" /\ result' = None)
            => LET placed == result_components'[CurPrefix]
                   ref == ComponentRef(CurPrefix, CurKey)
                   disputed == /\ MapHas(CurResults, CurKey)
                               /\ ~StructurallyEqual(MapGet(CurResults, CurKey), CurComponent)
                   name == LegacyPrefix \o CurKey
               IN IF ~disputed
                  THEN /\ MapHas(placed, CurKey)
                       /\ StructurallyEqual(MapGet(placed, CurKey), CurComponent)
                       /\ ref \notin DOMAIN reference_modification'
                  ELSE (MapHas(CurResults, name)
                           => StructurallyEqual(MapGet(CurResults, name), CurComponent))
                       => /\ MapHas(placed, name)
                          /\ StructurallyEqual(MapGet(placed, name), CurComponent)
                          /\ reference_modification'[ref] = ComponentRef(CurPrefix, name)
          ]_vars

(* An input with both fields set met a different Pet and an operationId in use:   *)
(* the component went to oldPet and the operation to oldlist.                     *)
C24_Witness ==
    /\ ReturnedOk
    /\ Len(inputs) = 2
    /\ inputs[2].dispute_prefix = Some("old")
    /\ inputs[2].dispute = SuffixDispute("X", Some(TRUE))
    /\ MapHas(Output.components[1].schemas, "oldPet")
    /\ MapHas(Output.paths, "/users")
    /\ ~Output.paths.vals["/users"].is_ref
    /\ IsSome(Output.paths.vals["/users"].ops["get"])
    /\ Output.paths.vals["/users"].ops["get"][1].operation_id = Some("oldlist")

(* ---------------------------------------------------------------------------- *)
(* The caller's documents                                                         *)
(* ---------------------------------------------------------------------------- *)

(* C25: a merge call, successful or failing, leaves every input document          *)
(* unchanged: selection, the drop of empty path items, renaming and rewriting act *)
(* on the scratch copy or on the accumulator.                                     *)
C25_InputsUntouched == [][pc # "idle" => inputs' = inputs]_vars

(* A merge returned a document without a path its input holds: selection or the   *)
(* drop of empty path items changed the scratch copy.                             *)
C25_Witness ==
    /\ ReturnedOk
    /\ \E i \in 1..Len(inputs) : \E p \in MapKeySet(inputs[i].oas.paths) :
          /\ inputs[i].path_modification = None
          /\ ~MapHas(Output.paths, p)

(* ---------------------------------------------------------------------------- *)
(* The lookup in the rewrite table                                                *)
(* ---------------------------------------------------------------------------- *)

KeysUnder(table, ref) ==
    {k \in DOMAIN table :
        /\ Len(k) > Len(ref)
        /\ \A n \in 1..Len(ref) : SubSeq(k, n, n) = SubSeq(ref, n, n)
        /\ SubSeq(k, Len(ref) + 1, Len(ref) + 1) = "/"}

(* C26: the lookup of ref returns the table value at ref when ref is a key;       *)
(* otherwise the value of the one key that starts with ref + "/" when there is    *)
(* exactly one; the merge fails when there is more than one; ref comes back       *)
(* unchanged when there is none.                                                  *)
C26_Lookup ==
    /\ [](Called("modify")
            => LET table == call[1].args[1]
                   ref == call[1].args[2]
                   ret == call[1].ret
                   under == KeysUnder(table, ref)
               IN IF ref \in DOMAIN table THEN ret = Ok(table[ref])
                  ELSE IF Cardinality(under) = 1 THEN \E k \in under : ret = Ok(table[k])
                  ELSE IF Cardinality(under) > 1 THEN ret.kind \notin {"Ok"}
                  ELSE ret = Ok(ref))
    /\ [][pc = "walk"
            => ((\E ref \in WalkedRefs(oas) :
                    /\ ref \notin DOMAIN reference_modification
                    /\ Cardinality(KeysUnder(reference_modification, ref)) > 1)
                 => (pc' = "done" /\ result' # None /\ result'[1].kind # "Ok"))]_vars

(* The lookup of a reference that is no key and has one key under it *)
C26_Witness ==
    /\ Called("modify")
    /\ call[1].args[2] = "#/a"
    /\ DOMAIN call[1].args[1] = {"#/a/x"}
    /\ call[1].ret = Ok("#/c")

(* ---------------------------------------------------------------------------- *)
(* Path items with no operation                                                   *)
(* ---------------------------------------------------------------------------- *)

(* Path p of input i is an inline item none of whose slots is populated after     *)
(* operation selection                                                            *)
EmptyItem(i, p) ==
    LET item == inputs[i].oas.paths.vals[p]
    IN /\ ~item.is_ref
       /\ \A m \in Methods :
             IsSome(item.ops[m]) => ~Survives(item.ops[m][1], inputs[i].operation_selection)
KeptItems(i) == {p \in MapKeySet(inputs[i].oas.paths) : ~EmptyItem(i, p)}
ModifiedPath(i, p) == ApplyPathModification(p, inputs[i].path_modification)
Processing == pc \in {"components", "security", "paths", "walk"}

(* C27: an inline path item with no operation slot populated, originally or after *)
(* operation selection, is dropped before path merging: it is not in the output   *)
(* paths, causes no DuplicatePaths, occupies no path key and adds no #/paths entry *)
(* to the rewrite table; a path item that is a $ref is kept.                      *)
C27_EmptyItemsDropped ==
    /\ Processing => MapKeySet(oas.paths) = KeptItems(input_index)
    /\ Processing =>
          \A p \in MapKeySet(inputs[input_index].oas.paths) :
             EmptyItem(input_index, p) => PathRef(p) \notin DOMAIN reference_modification
    /\ ReturnedOk =>
          MapKeySet(Output.paths)
             = UNION {{ModifiedPath(i, p) : p \in KeptItems(i)} : i \in 1..Len(inputs)}
    /\ ReturnedErr("DuplicatePaths") =>
          \E i, j \in 1..Len(inputs) : \E p \in KeptItems(i), q \in KeptItems(j) :
             <<i, p>> # <<j, q>> /\ ModifiedPath(i, p) = ModifiedPath(j, q)

(* /empty is an empty path item in the first input and holds an operation in the  *)
(* second: the merge succeeds and /empty is the second input's.                   *)
C27_Witness ==
    /\ ReturnedOk
    /\ Len(inputs) = 2
    /\ MapHas(inputs[1].oas.paths, "/empty")
    /\ EmptyItem(1, "/empty")
    /\ inputs[1].path_modification = None
    /\ MapHas(inputs[2].oas.paths, "/empty")
    /\ MapHas(Output.paths, "/empty")
    /\ Output.paths.vals["/empty"] = inputs[2].oas.paths.vals["/empty"]

(* ---------------------------------------------------------------------------- *)
(* The rewrite table of an input                                                  *)
(* ---------------------------------------------------------------------------- *)

(* The name the component of the current step is placed under *)
CurPlacedName == IF CurConflict THEN CurExpectedName ELSE CurModified

OwnComponentRefs ==
    IF IsSome(oas.components)
    THEN UNION {{ComponentRef(Kinds[k], n) : n \in MapKeySet(oas.components[1][Kinds[k]])} :
                   k \in 1..Len(Kinds)}
    ELSE {}

(* C28: at the end of an input's component and path processing its rewrite table  *)
(* holds an entry for #/components/K/name exactly when the component was placed   *)
(* under another name, and the value is the name it was placed under (a dispute   *)
(* or numeric rename overwrites the entry recorded for alwaysApply); it holds an  *)
(* entry for #/paths/<p> exactly when modifyPath(p) differs from p; the table     *)
(* starts empty for every input.                                                  *)
C28_RewriteTable ==
    /\ [][pc = "input" => reference_modification' = <<>>]_vars
    /\ [][(pc = "components" /\ result' = None)
            => LET ref == ComponentRef(CurPrefix, CurKey)
                   name == CurPlacedName
               IN /\ MapHas(result_components'[CurPrefix], name)
                  /\ StructurallyEqual(MapGet(result_components'[CurPrefix], name), CurComponent)
                  /\ ref \in DOMAIN reference_modification' <=> name # CurKey
                  /\ name # CurKey
                        => reference_modification'[ref] = ComponentRef(CurPrefix, name)
                  /\ DOMAIN reference_modification' \ {ref} = DOMAIN reference_modification \ {ref}
                  /\ \A r \in DOMAIN reference_modification \ {ref} :
                        reference_modification'[r] = reference_modification[r] ]_vars
    /\ [][(pc = "paths" /\ result' = None)
            => LET ref == PathRef(CurPath)
               IN /\ ref \in DOMAIN reference_modification' <=> CurNewPath # CurPath
                  /\ CurNewPath # CurPath => reference_modification'[ref] = PathRef(CurNewPath)
                  /\ DOMAIN reference_modification' \ {ref} = DOMAIN reference_modification \ {ref}
                  /\ \A r \in DOMAIN reference_modification \ {ref} :
                        reference_modification'[r] = reference_modification[r] ]_vars
    /\ [][(pc \in {"security", "walk"}) => reference_modification' = reference_modification]_vars
    /\ [](pc = "walk"
            => /\ DOMAIN reference_modification
                     \subseteq OwnComponentRefs \cup {PathRef(q) : q \in MapKeySet(oas.paths)}
               /\ \A q \in MapKeySet(oas.paths) :
                     LET new_path == ApplyPathModification(q, inputs[input_index].path_modification)
                     IN /\ PathRef(q) \in DOMAIN reference_modification <=> new_path # q
                        /\ new_path # q => reference_modification[PathRef(q)] = PathRef(new_path)
               /\ IsSome(oas.components) =>
                     \A k \in 1..Len(Kinds) : \A n \in MapKeySet(oas.components[1][Kinds[k]]) :
                        LET ref == ComponentRef(Kinds[k], n)
                            own == oas.components[1][Kinds[k]].vals[n]
                            acc == result_components[Kinds[k]]
                        IN IF ref \in DOMAIN reference_modification
                           THEN \E placed \in MapKeySet(acc) :
                                   /\ placed # n
                                   /\ reference_modification[ref] = ComponentRef(Kinds[k], placed)
                                   /\ StructurallyEqual(MapGet(acc, placed), own)
                           ELSE /\ MapHas(acc, n)
                                /\ StructurallyEqual(MapGet(acc, n), own))

(* Under an alwaysApply prefix the component Pet met a different value at svcPet  *)
(* and was placed at Pet1: the entry first recorded for svcPet now names Pet1.    *)
C28_Witness ==
    /\ pc = "walk"
    /\ IsSome(dispute)
    /\ dispute[1].always_apply = Some(TRUE)
    /\ dispute[1].variant = "Prefix"
    /\ PetRef \in DOMAIN reference_modification
    /\ reference_modification[PetRef] = ComponentRef("schemas", "Pet1")

(* ---------------------------------------------------------------------------- *)
(* The accumulated components                                                     *)
(* ---------------------------------------------------------------------------- *)

(* C29: the accumulated components are first-wins and lossless: a name of a kind  *)
(* that holds a value in the accumulator is never given a structurally different  *)
(* value, and in a successful merge every component of every input, also of an    *)
(* input whose operations were all removed by operation selection, is in the      *)
(* output of its kind under some name with a structurally equal value.            *)
C29_FirstWinsLossless ==
    /\ [][pc # "idle"
            => \A kind \in AllKinds : \A n \in MapKeySet(result_components[kind]) :
                  /\ MapHas(result_components'[kind], n)
                  /\ StructurallyEqual(MapGet(result_components'[kind], n),
                                       MapGet(result_components[kind], n))]_vars
    /\ [](ReturnedOk
            => \A i \in 1..Len(inputs) :
                  IsSome(inputs[i].oas.components)
                     => \A k \in 1..Len(Kinds) :
                           \A n \in MapKeySet(inputs[i].oas.components[1][Kinds[k]]) :
                              \E m \in MapKeySet(Output.components[1][Kinds[k]]) :
                                 StructurallyEqual(
                                     MapGet(Output.components[1][Kinds[k]], m),
                                     MapGet(inputs[i].oas.components[1][Kinds[k]], n)))

(* The second input lost its only operation to operation selection; its Pet,      *)
(* different from the first input's, is in the output under another name.         *)
C29_Witness ==
    /\ ReturnedOk
    /\ Len(inputs) = 2
    /\ inputs[2].operation_selection # None
    /\ MapKeySet(inputs[2].oas.paths) # {}
    /\ KeptItems(2) = {}
    /\ IsSome(inputs[1].oas.components) /\ IsSome(inputs[2].oas.components)
    /\ MapHas(inputs[1].oas.components[1].schemas, "Pet")
    /\ MapHas(inputs[2].oas.components[1].schemas, "Pet")
    /\ ~StructurallyEqual(MapGet(inputs[1].oas.components[1].schemas, "Pet"),
                          MapGet(inputs[2].oas.components[1].schemas, "Pet"))
    /\ StructurallyEqual(MapGet(Output.components[1].schemas, "Pet"),
                         MapGet(inputs[1].oas.components[1].schemas, "Pet"))
    /\ \E m \in MapKeySet(Output.components[1].schemas) :
          /\ m # "Pet"
          /\ StructurallyEqual(MapGet(Output.components[1].schemas, m),
                               MapGet(inputs[2].oas.components[1].schemas, "Pet"))

(* ---------------------------------------------------------------------------- *)
(* The operationIds seen                                                          *)
(* ---------------------------------------------------------------------------- *)

AccumulatedIds == OperationIds([paths |-> result_paths])

(* The place of a slot in the order get, put, post, delete, patch, head, trace, options *)
Place(m) ==
    CHOOSE n \in 1..8 :
        <<"get", "put", "post", "delete", "patch", "head", "trace", "options">>[n] = m
CurMethodsWithId ==
    {m \in Methods :
        /\ ~CurPathItem.is_ref
        /\ IsSome(CurPathItem.ops[m])
        /\ IsSome(CurPathItem.ops[m][1].operation_id)}
CurIdOf(m) == CurPathItem.ops[m][1].operation_id[1]

(* C30: after each path item is inserted, seenOperationIds is exactly the set of  *)
(* operationIds of the operations in the accumulated paths, so an operation        *)
(* removed by operation selection or belonging to a dropped path item reserves no  *)
(* id and forces no renaming; inside a path item the slots are handled in the      *)
(* order get, put, post, delete, patch, head, trace, options, so of two slots      *)
(* sharing an id the earlier one keeps it.                                         *)
C30_SeenOperationIds ==
    /\ []((result = None \/ ReturnedOk) => seen_operation_ids = AccumulatedIds)
    /\ [][(pc = "paths" /\ result' = None)
            => LET written == result_paths'.vals[CurNewPath]
                   WrittenIdOf(m) == written.ops[m][1].operation_id[1]
               IN \A m \in CurMethodsWithId :
                     (/\ CurIdOf(m) \notin AccumulatedIds
                      /\ \A e \in CurMethodsWithId :
                            Place(e) < Place(m) => WrittenIdOf(e) # CurIdOf(m))
                        => /\ WrittenIdOf(m) = CurIdOf(m)
                           /\ \A l \in CurMethodsWithId :
                                 Place(l) > Place(m) => WrittenIdOf(l) # CurIdOf(m) ]_vars

(* The first input lost its operation list to operation selection; the second     *)
(* input's operation list is in the output under its own id.                      *)
C30_Witness ==
    /\ ReturnedOk
    /\ Len(inputs) = 2
    /\ "list" \in OperationIds(inputs[1].oas)
    /\ MapKeySet(inputs[1].oas.paths) # {}
    /\ KeptItems(1) = {}
    /\ "list" \in OperationIds(inputs[2].oas)
    /\ OperationIds(Output) = OperationIds(inputs[2].oas)
    /\ seen_operation_ids = OperationIds(Output)

====
